---- MODULE Spec2Model ----
(***************************************************************************)
(* State-machine model of the ML-OPS service core: the model registry      *)
(* (app/services/model_service.py), the dataset registry                   *)
(* (app/services/dataset_service.py) and the adapters they call            *)
(* (clearml_service.py, minio_service.py, dvc_service.py).                 *)
(*                                                                         *)
(* Encoding conventions                                                    *)
(*   - a Python string that the code slices or concatenates (ids, file     *)
(*     names, paths) is a sequence of tokens: "<uuid>.pkl" is              *)
(*     <<uuid, ".pkl">>;                                                   *)
(*   - Optional[T] is a sequence of length <= 1: None is <<>>;             *)
(*   - a dict is a function (registries, metadata files) or a set of       *)
(*     <<key, value>> pairs (hyperparameters, metrics);                    *)
(*   - a float is a token: "nan", "inf", "-inf" or a finite literal;       *)
(*   - a datetime is [tag |-> "datetime", v |-> t]; its ISO-8601 text is   *)
(*     [tag |-> "str", v |-> t].                                           *)
(***************************************************************************)
EXTENDS Integers, Sequences, FiniteSets, TLC

\* Number of ids uuid.uuid4() hands to train_model in one behaviour.
MaxModels == 2
\* Number of ids uuid.uuid4() hands to upload_dataset in one behaviour.
MaxDatasets == 1
MaxUploads == 2

VARIABLES
    running,              \* the service process is up (module singletons constructed)
    clearmlInitialized,   \* ClearMLService.initialized
    minioClient,          \* minio_service.client is not None
    models,               \* ModelService.models       : model_id -> record
    modelsMetadataFile,   \* models/models_metadata.json: Optional[model_id -> record]
    modelsDir,            \* the *.pkl files of models/ : file name -> [mtime]
    datasets,             \* DatasetService.datasets   : dataset_id -> record
    datasetsMetadataFile, \* data/datasets_metadata.json: Optional[dataset_id -> record]
    datasetsDir,          \* the other files of data/   : file name -> content
    modelUuids,           \* uuid4 draws made by train_model so far
    datasetUuids,         \* uuid4 draws made by upload_dataset so far
    clock,                \* the wall clock read by datetime.now() and file mtimes
    last,                 \* the last call: its name, arguments, result and external calls
    deleted,              \* history: the ids for which a delete call has returned True
    workers               \* the calls in progress on the gRPC server's worker threads

vars == <<running, clearmlInitialized, minioClient, models, modelsMetadataFile,
          modelsDir, datasets, datasetsMetadataFile, datasetsDir, modelUuids,
          datasetUuids, clock, last, deleted, workers>>

modelVars == <<models, modelsMetadataFile, modelsDir, modelUuids>>
datasetVars == <<datasets, datasetsMetadataFile, datasetsDir, datasetUuids>>
configVars == <<clearmlInitialized, minioClient>>

----------------------------------------------------------------------------
\* Python values

None == <<>>
Some(v) == <<v>>

EmptyDict == [k \in {} |-> None]
DictPut(d, k, v) == [x \in (DOMAIN d) \cup {k} |-> IF x = k THEN v ELSE d[x]]
DictDel(d, k) == [x \in (DOMAIN d) \ {k} |-> d[x]]
DictUpdate(d, e) == [x \in (DOMAIN d) \cup (DOMAIN e) |-> IF x \in DOMAIN e THEN e[x] ELSE d[x]]

\* str(uuid.uuid4()): the n-th draw of a behaviour, never drawn before.
uuid4(n) == <<ToString(n)>>

datetime(t) == [tag |-> "datetime", v |-> t]
isoformat(dt) == [tag |-> "str", v |-> dt.v]
fromisoformat(s) == [tag |-> "datetime", v |-> s.v]

\* os.path.join(dir, name)
join(dir, name) == <<dir>> \o name
endswith(name, suffix) == Len(name) > 0 /\ name[Len(name)] = suffix

models_dir == "models"
datasets_dir == "data"

\* os.path.exists(path) for a path produced by join
exists(path) ==
    /\ Len(path) > 1
    /\ \/ path[1] = models_dir /\ Tail(path) \in DOMAIN modelsDir
       \/ path[1] = datasets_dir /\ Tail(path) \in DOMAIN datasetsDir

----------------------------------------------------------------------------
\* ModelService: persistence

\* info_copy of _save_model_metadata: created_at as ISO text
ModelInfoToJson(info) ==
    [info EXCEPT !.created_at = IF @.tag = "datetime" THEN isoformat(@) ELSE @]

\* the per-record conversion of _load_models_from_disk
ModelInfoFromJson(info) ==
    [info EXCEPT !.created_at = IF @.tag = "str" THEN fromisoformat(@) ELSE @]

\* the record _load_models_from_disk builds for a *.pkl file without metadata
PlaceholderRecord(model_id, file_name) ==
    [model_id |-> model_id,
     model_type |-> "linear",
     dataset_id |-> <<"unknown">>,
     hyperparameters |-> {},
     created_at |-> datetime(modelsDir[file_name].mtime),
     status |-> "trained",
     model_path |-> join(models_dir, file_name),
     clearml_model_id |-> None,
     metrics |-> None]

\* os.listdir(models_dir): the artifacts and, once written, the metadata file
ListModelsDir ==
    (DOMAIN modelsDir)
        \cup (IF modelsMetadataFile = None THEN {} ELSE {<<"models_metadata", ".json">>})

\* A start that replays the metadata file and skips the directory scan.
NoScannedModelIds == {}

\* the model ids the directory scan of _load_models_from_disk finds
ScannedModelIds ==
    {SubSeq(f, 1, Len(f) - 1) : f \in {g \in ListModelsDir : endswith(g, ".pkl")}}

\* A start that builds the registry from the metadata file alone.
load_models_from_file_only ==
    IF modelsMetadataFile = None
    THEN EmptyDict
    ELSE [mid \in DOMAIN modelsMetadataFile[1] |->
              ModelInfoFromJson(modelsMetadataFile[1][mid])]

load_models_from_disk ==
    LET replayed ==
            IF modelsMetadataFile = None
            THEN EmptyDict
            ELSE [mid \in DOMAIN modelsMetadataFile[1] |->
                      ModelInfoFromJson(modelsMetadataFile[1][mid])]
        orphans == ScannedModelIds \ DOMAIN replayed
    IN  [mid \in (DOMAIN replayed) \cup orphans |->
            IF mid \in DOMAIN replayed
            THEN replayed[mid]
            ELSE PlaceholderRecord(mid, mid \o <<".pkl">>)]

\* _save_model_metadata, the loop over self.models.items(): the mapping `data`
build_model_metadata(registry, model_id) ==
    [mid \in {m \in DOMAIN registry : model_id = None \/ Some(m) = model_id} |->
        ModelInfoToJson(registry[mid])]

\* _save_model_metadata, json.load of the existing file: the mapping `all_data`
read_model_metadata ==
    IF modelsMetadataFile = None THEN EmptyDict ELSE modelsMetadataFile[1]

\* A save that merges `data` into the file as it is when it writes, as a save holding
\* a lock over its read and its write would.
write_model_metadata_fresh(all_data, data) ==
    Some(DictUpdate(read_model_metadata, data))

\* _save_model_metadata, all_data.update(data) and json.dump: the new file content
write_model_metadata(all_data, data) ==
    Some(DictUpdate(all_data, data))

\* A save that writes `data` alone, as the dataset registry's save does.
save_model_metadata_alone(registry, model_id) ==
    Some(build_model_metadata(registry, model_id))

\* _save_model_metadata(model_id) run on registry `registry` without interruption:
\* the new file content
save_model_metadata(registry, model_id) ==
    write_model_metadata(read_model_metadata, build_model_metadata(registry, model_id))

----------------------------------------------------------------------------
\* Environment: what the external collaborators do during one call

\* The tracker SDK during one call (initialized tracker only):
\*   ok                   every SDK call succeeds
\*   init_fail            Task.init raises whenever it is called
\*   init_fail_once       the first Task.init of the call raises, a second one succeeds
\*   scalar_raise         report_scalar of train_model's "Training Progress" raises
\*   metric_scalar_raise  report_scalar of train_model's "Training Metrics" raises
\*   final_scalar_raise   report_scalar of save_model's "Final Metrics" raises
\*   register_raise       OutputModel(...) / update_weights raises
\*   complete_fail        mark_completed and the direct status assignment raise
TrackerModes ==
    {"ok", "init_fail", "init_fail_once", "scalar_raise", "metric_scalar_raise",
     "final_scalar_raise", "register_raise", "complete_fail"}
TrackerOutcomes(modes) == IF clearmlInitialized THEN modes ELSE {"off"}

\* The object store during one call (constructed client only):
\*   ok           bucket check and put_object succeed
\*   bucket_fail  bucket_exists / make_bucket raises, put_object succeeds
\*   put_fail     put_object raises
MinioModes == {"ok", "bucket_fail", "put_fail"}
MinioOutcomes(modes) == IF minioClient THEN modes ELSE {"off"}

\* model.train(X, y) of app.models (LinearModel / RandomForestModel): it raises, or
\* returns the metric mapping computed in-sample.
EstimatorRaises == [raised |-> TRUE, metrics |-> {}]
EstimatorReturns(metrics) == [raised |-> FALSE, metrics |-> metrics]
FiniteMetrics == {<<"r2_score", "0.9">>, <<"mse", "0.1">>}
DegenerateMetrics == {<<"r2_score", "nan">>, <<"mse", "inf">>}

\* the metric mappings an estimator can return: every value finite, NaN, +inf, -inf
\* or None (floats are written as Python prints them), and no metric at all
NonFinite == {"nan", "inf", "-inf"}
MetricInputs ==
    {{<<"r2_score", r2>>, <<"mse", mse>>} :
        r2 \in {"0.9", "nan", "-inf", "None"}, mse \in {"0.1", "inf"}} \cup {{}}

ModelTypeInputs == {"linear", "random_forest", "svm"}
HyperparameterInputs == {{<<"alpha", "1.0">>}}
\* the overrides offered to retrain_model: None, {} or a mapping
RetrainHyperparameterInputs == {None, Some({}), Some({<<"alpha", "2.0">>})}
\* the ids upload_dataset can have returned
DatasetIdInputs == {<<"d", ToString(n)>> : n \in 1..MaxDatasets}

----------------------------------------------------------------------------
\* ClearMLService

\* Task.init inside create_experiment: whether the attempt-th call of a handler succeeds
TaskInitOk(trk, attempt) ==
    CASE trk = "init_fail" -> FALSE
      [] trk = "init_fail_once" -> attempt > 1
      [] OTHER -> TRUE

\* create_experiment: Optional[Task]; every SDK exception becomes None
create_experiment(trk, attempt) ==
    IF ~clearmlInitialized
    THEN [task |-> None, calls |-> <<>>]
    ELSE IF TaskInitOk(trk, attempt)
         THEN [task |-> Some("task"), calls |-> <<"Task.init:ok">>]
         ELSE [task |-> None, calls |-> <<"Task.init:raise">>]

\* the metric entries both report_scalar loops pass to the tracker
ReportableMetrics(metrics) == {kv \in metrics : kv[2] \notin {"None", "nan", "inf"}}

\* save_model: Optional[clearml model id]; every SDK exception becomes None
save_model(model_id, metrics, task, fileExists, trk) ==
    IF ~clearmlInitialized
    THEN [id |-> None, calls |-> <<>>]
    ELSE
      LET created == IF task = None THEN create_experiment(trk, 2)
                     ELSE [task |-> task, calls |-> <<>>]
          c1 == created.calls
          report == ReportableMetrics(metrics) # {}
          c2 == c1 \o (IF ~report THEN <<>>
                       ELSE IF trk = "final_scalar_raise" THEN <<"report_scalar:raise">>
                       ELSE <<"report_scalar:ok">>)
          c3 == c2 \o (IF trk = "register_raise" THEN <<"update_weights:raise">>
                       ELSE <<"update_weights:ok">>)
          c4 == c3 \o (IF trk = "complete_fail" THEN <<"mark_completed:raise">>
                       ELSE <<"mark_completed:ok">>)
      IN  IF created.task = None THEN [id |-> None, calls |-> c1]
          ELSE IF report /\ trk = "final_scalar_raise" THEN [id |-> None, calls |-> c2]
          ELSE IF ~fileExists THEN [id |-> None, calls |-> c2]
          ELSE IF trk = "register_raise" THEN [id |-> None, calls |-> c3]
          ELSE [id |-> Some(<<"clearml">> \o model_id), calls |-> c4]

\* load_model: Optional[path of the fetched copy]; fetch is what get_weights does:
\*   file     the weights are written to <model_id>_clearml.pkl
\*   nofile   the call returns without a file at that path
\*   raise    the SDK raises
FetchOutcomes == {"file", "nofile", "raise"}

load_model(clearml_model_id, model_id, fetch) ==
    IF ~clearmlInitialized \/ clearml_model_id = None
    THEN [path |-> None, written |-> FALSE, calls |-> <<>>]
    ELSE IF fetch = "raise"
         THEN [path |-> None, written |-> FALSE, calls |-> <<"get_weights:raise">>]
         ELSE [path |-> Some(join(models_dir, model_id \o <<"_clearml", ".pkl">>)),
               written |-> (fetch = "file"),
               calls |-> <<"get_weights:ok">>]

----------------------------------------------------------------------------
\* ModelService: operations

get_available_model_types == {"linear", "random_forest"}

\* create_model: Optional[estimator]; None stands for the ValueError it raises
create_model(model_type, hyperparameters) ==
    IF model_type = "linear"
    THEN Some([cls |-> "LinearModel", hyperparameters |-> hyperparameters])
    ELSE IF model_type = "random_forest"
         THEN Some([cls |-> "RandomForestModel", hyperparameters |-> hyperparameters])
         ELSE None

\* _save_model_to_minio: TRUE when it raises
save_model_to_minio(mio) ==
    IF ~minioClient
    THEN [raised |-> FALSE, calls |-> <<>>]
    ELSE LET bucket == IF mio = "bucket_fail" THEN <<"bucket_exists:raise">>
                       ELSE <<"bucket_exists:ok">>
         IN  IF mio = "put_fail"
             THEN [raised |-> TRUE, calls |-> bucket \o <<"put_object:raise">>]
             ELSE [raised |-> FALSE, calls |-> bucket \o <<"put_object:ok">>]

\* the clean_metrics loop of train_model
\* A filter that drops what the report to the tracker skips: None, NaN and +inf.
clean_metrics_as_reported(metrics) ==
    {kv \in metrics : kv[2] \notin {"None", "nan", "inf"}}

clean_metrics(metrics) ==
    {kv \in metrics :
        IF kv[2] \in {"nan", "inf", "-inf"} THEN FALSE ELSE kv[2] # "None"}

\* A record that keeps the defaults of the estimator instead of the hyperparameters
\* the caller passed.
TrainedRecordWithDefaults(model_id, model_type, dataset_id, hyperparameters, clearml_model_id, metrics) ==
    [model_id |-> model_id,
     model_type |-> model_type,
     dataset_id |-> dataset_id,
     hyperparameters |-> {},
     created_at |-> datetime(clock),
     status |-> "trained",
     model_path |-> join(models_dir, model_id \o <<".pkl">>),
     clearml_model_id |-> clearml_model_id,
     metrics |-> IF clean_metrics(metrics) # {} THEN Some(clean_metrics(metrics)) ELSE None]

\* the record train_model stores
TrainedRecord(model_id, model_type, dataset_id, hyperparameters, clearml_model_id, metrics) ==
    [model_id |-> model_id,
     model_type |-> model_type,
     dataset_id |-> dataset_id,
     hyperparameters |-> hyperparameters,
     created_at |-> datetime(clock),
     status |-> "trained",
     model_path |-> join(models_dir, model_id \o <<".pkl">>),
     clearml_model_id |-> clearml_model_id,
     metrics |-> IF clean_metrics(metrics) # {} THEN Some(clean_metrics(metrics)) ELSE None]

\* A train_model that registers the record when it starts and, when it stops with an
\* exception, leaves it behind with status "failed".
TrainRaisedPartial(model_id, err, calls, saved) ==
    LET partial == [TrainedRecord(model_id, "linear", <<"unknown">>, {}, None, {})
                       EXCEPT !.status = "failed"]
        registry == DictPut(models, model_id, partial)
    IN  [err |-> err, ret |-> None, calls |-> calls,
         models |-> registry,
         file |-> save_model_metadata(registry, Some(model_id)),
         dir |-> IF saved THEN DictPut(modelsDir, model_id \o <<".pkl">>, [mtime |-> clock])
                 ELSE modelsDir]

\* The outcome of a train_model call that stopped with exception `err` after the
\* external calls `calls`; `saved` tells whether model.save had written the artifact.
TrainRaised(model_id, err, calls, saved) ==
    [err |-> err, ret |-> None, calls |-> calls,
     models |-> models,
     file |-> modelsMetadataFile,
     dir |-> IF saved THEN DictPut(modelsDir, model_id \o <<".pkl">>, [mtime |-> clock])
             ELSE modelsDir]

\* train_model from the line after the uuid4 draw: the call's result and the
\* registry, metadata file and directory it leaves.
train_with_id(model_id, model_type, dataset_id, hyperparameters, est, trk, mio) ==
    LET exp == create_experiment(trk, 1)
        task == exp.task
        c1 == exp.calls \o (IF task = None THEN <<>>
                            ELSE IF trk = "scalar_raise" THEN <<"report_scalar:raise">>
                            ELSE <<"report_scalar:ok">>)
        model == create_model(model_type, hyperparameters)
        c2 == c1 \o (IF est.raised THEN <<"model.train:raise">> ELSE <<"model.train:ok">>)
        report == task # None /\ ReportableMetrics(est.metrics) # {}
        c3 == c2 \o (IF ~report THEN <<>>
                     ELSE IF trk = "metric_scalar_raise" THEN <<"report_scalar:raise">>
                     ELSE <<"report_scalar:ok">>)
        c4 == c3 \o <<"model.save">>
        reg == save_model(model_id, est.metrics, task, TRUE, trk)
        c5 == c4 \o reg.calls
        put == save_model_to_minio(mio)
        c6 == c5 \o put.calls
        record == TrainedRecord(model_id, model_type, dataset_id, hyperparameters,
                                reg.id, est.metrics)
        registry == DictPut(models, model_id, record)
    IN  IF task # None /\ trk = "scalar_raise" THEN TrainRaised(model_id, "TrackerError", c1, FALSE)
        ELSE IF model = None THEN TrainRaised(model_id, "ValueError", c1, FALSE)
        ELSE IF est.raised THEN TrainRaised(model_id, "EstimatorError", c2, FALSE)
        ELSE IF report /\ trk = "metric_scalar_raise"
             THEN TrainRaised(model_id, "TrackerError", c3, FALSE)
        ELSE IF put.raised THEN TrainRaised(model_id, "ArtifactStoreError", c6, TRUE)
        ELSE [err |-> "none", ret |-> Some(model_id), calls |-> c6,
              models |-> registry,
              file |-> save_model_metadata(registry, Some(model_id)),
              dir |-> DictPut(modelsDir, model_id \o <<".pkl">>, [mtime |-> clock])]

train_model(model_type, dataset_id, hyperparameters, est, trk, mio) ==
    train_with_id(uuid4(modelUuids + 1), model_type, dataset_id, hyperparameters,
                  est, trk, mio)

\* A retrain_model that trains under the id of the model it was given.
\* A lookup that answers for an id the registry lacks with a default record.
models_get_or_default(model_id) ==
    IF model_id \in DOMAIN models
    THEN Some(models[model_id])
    ELSE Some([model_id |-> model_id,
               model_type |-> "linear",
               dataset_id |-> <<"unknown">>,
               hyperparameters |-> {},
               created_at |-> datetime(clock),
               status |-> "trained",
               model_path |-> join(models_dir, model_id \o <<".pkl">>),
               clearml_model_id |-> None,
               metrics |-> None])

\* self.models.get(model_id)
models_get(model_id) ==
    IF model_id \in DOMAIN models THEN Some(models[model_id]) ELSE None

\* A retrain that copies the old record's hyperparameters and dataset whatever the
\* caller supplies.
retrain_as_before(model_id, dataset_id, hyperparameters, est, trk, mio) ==
    train_model(models[model_id].model_type, models[model_id].dataset_id,
                models[model_id].hyperparameters, est, trk, mio)

retrain_in_place(model_id, dataset_id, hyperparameters, est, trk, mio) ==
    train_with_id(model_id, models[model_id].model_type, dataset_id,
                  IF hyperparameters # None /\ hyperparameters[1] # {}
                  THEN hyperparameters[1]
                  ELSE models[model_id].hyperparameters,
                  est, trk, mio)

\* retrain_model, past the lookup of the existing record
retrain_model(model_id, dataset_id, hyperparameters, est, trk, mio) ==
    LET old_model_info == models_get(model_id)[1]
        new_hyperparameters ==
            IF hyperparameters # None /\ hyperparameters[1] # {}
            THEN hyperparameters[1]
            ELSE old_model_info.hyperparameters
    IN  train_model(old_model_info.model_type, dataset_id, new_hyperparameters,
                    est, trk, mio)

\* delete_model on a registered id: the registry and the directory it leaves
\* (the metadata file is not written)
delete_model(model_id) ==
    LET model_path == models[model_id].model_path
    IN  [models |-> DictDel(models, model_id),
         dir |-> IF exists(model_path) THEN DictDel(modelsDir, Tail(model_path))
                 ELSE modelsDir]

----------------------------------------------------------------------------
\* ModelService: predict

\* The feature names the inputs use, with their characters. A dict of features is
\* the set of its <<key, value>> items.
FeatureNames == {"x1", "x10", "x2"}
KeyChars(k) ==
    CASE k = "x1" -> <<"x", "1">>
      [] k = "x10" -> <<"x", "1", "0">>
      [] k = "x2" -> <<"x", "2">>

\* ord(c), the code point of a character
ord(c) ==
    CASE c = "0" -> 48
      [] c = "1" -> 49
      [] c = "2" -> 50
      [] c = "x" -> 120

\* str.__lt__: code points compared position by position, a proper prefix is smaller
RECURSIVE SeqLess(_, _)
SeqLess(a, b) ==
    IF b = <<>> THEN FALSE
    ELSE IF a = <<>> THEN TRUE
    ELSE IF ord(a[1]) # ord(b[1]) THEN ord(a[1]) < ord(b[1])
    ELSE SeqLess(Tail(a), Tail(b))

StrLess(k1, k2) == SeqLess(KeyChars(k1), KeyChars(k2))

\* dict.keys()
Keys(dict) == {kv[1] : kv \in dict}

\* keys = list(dict.keys()); keys.sort()
SortedKeys(dict) ==
    CHOOSE keys \in [1..Cardinality(Keys(dict)) -> Keys(dict)] :
        \A i, j \in 1..Cardinality(Keys(dict)) : i < j => StrLess(keys[i], keys[j])

\* float(value) on the values the inputs use: an int becomes the float of the same
\* value, a float is itself
float(value) ==
    CASE value = "3" -> "3.0"
      [] OTHER -> value
\* item.get(key, 0.0)
DictGet(dict, key, default) ==
    IF \E kv \in dict : kv[1] = key
    THEN (CHOOSE kv \in dict : kv[1] = key)[2]
    ELSE default

\* A conversion whose columns are the sorted keys of all the records.
convert_features_all_keys(features) ==
    IF Len(features.rows) = 0 THEN Some(<<>>)
    ELSE IF features.kind = "lists" THEN Some(features.rows)
    ELSE IF features.kind = "dicts"
         THEN LET keys == SortedKeys(UNION {features.rows[i] : i \in 1..Len(features.rows)})
              IN  Some([i \in 1..Len(features.rows) |->
                          [j \in 1..Len(keys) |->
                              float(DictGet(features.rows[i], keys[j], "0.0"))]])
         ELSE None

\* _convert_features_to_list: Optional[matrix]; None stands for the ValueError.
\* `kind` is the type of features[0]: "lists", "dicts" or anything else.
convert_features_to_list(features) ==
    IF Len(features.rows) = 0 THEN Some(<<>>)
    ELSE IF features.kind = "lists" THEN Some(features.rows)
    ELSE IF features.kind = "dicts"
         THEN LET keys == SortedKeys(features.rows[1])
              IN  Some([i \in 1..Len(features.rows) |->
                          [j \in 1..Len(keys) |->
                              float(DictGet(features.rows[i], keys[j], "0.0"))]])
         ELSE None

\* the feature inputs offered to predict, as a list (their shapes differ)
FeatureInputs ==
    <<[kind |-> "lists", rows |-> <<>>],
      [kind |-> "lists", rows |-> << <<"1.0", "2.0">>, <<"3.0", "4.0">> >>],
      [kind |-> "dicts", rows |-> << {<<"x2", "2.0">>, <<"x10", "1.0">>},
                                     {<<"x10", "3">>, <<"x1", "5.0">>} >>],
      [kind |-> "scalars", rows |-> <<"1.0">>]>>

\* The feature inputs offered to the conversion alone: lists of at most MaxRows
\* records over FeatureNames, whose values are a float or an int, and lists of at
\* most MaxRows lists of floats.
MaxRows == 2
FeatureValues == {"1.0", "3"}
FeatureDicts ==
    {{<<k, f[k]>> : k \in DOMAIN f} :
        f \in UNION {[ks -> FeatureValues] : ks \in SUBSET FeatureNames}}
FeatureLists == UNION {[1..n -> {"1.0", "2.0"}] : n \in 0..MaxRows}
RecordInputs == UNION {[1..n -> FeatureDicts] : n \in 0..MaxRows}
MatrixInputs == UNION {[1..n -> FeatureLists] : n \in 0..MaxRows}

\* A predict that loads the estimator from the tracker only.
predict_from_tracker_only(model_id, features, fetch) ==
    LET model_info == models[model_id]
        X == convert_features_to_list(features)
        fetched == load_model(model_info.clearml_model_id, model_id, fetch)
        dir == IF fetched.written
               THEN DictPut(modelsDir, Tail(fetched.path[1]), [mtime |-> clock])
               ELSE modelsDir
        fromTracker == fetched.path # None /\ Tail(fetched.path[1]) \in DOMAIN dir
    IN  IF X = None
        THEN [err |-> "ValueError", ret |-> None, source |-> "none", calls |-> <<>>,
              dir |-> modelsDir]
        ELSE IF fromTracker
        THEN [err |-> "none", ret |-> Some(Len(X[1])), source |-> "clearml",
              calls |-> fetched.calls, dir |-> dir]
        ELSE [err |-> "ValueError", ret |-> None, source |-> "none",
              calls |-> fetched.calls, dir |-> dir]

\* A predict that looks at the local artifact first and asks the tracker only when
\* the local file is missing.
predict_local_first(model_id, features, fetch) ==
    LET model_info == models[model_id]
        X == convert_features_to_list(features)
        fromLocal == Tail(model_info.model_path) \in DOMAIN modelsDir
        fetched == IF fromLocal
                   THEN [path |-> None, written |-> FALSE, calls |-> <<>>]
                   ELSE load_model(model_info.clearml_model_id, model_id, fetch)
        dir == IF fetched.written
               THEN DictPut(modelsDir, Tail(fetched.path[1]), [mtime |-> clock])
               ELSE modelsDir
        fromTracker == fetched.path # None /\ Tail(fetched.path[1]) \in DOMAIN dir
    IN  IF X = None
        THEN [err |-> "ValueError", ret |-> None, source |-> "none", calls |-> <<>>,
              dir |-> modelsDir]
        ELSE IF fromLocal
        THEN [err |-> "none", ret |-> Some(Len(X[1])), source |-> "local",
              calls |-> fetched.calls, dir |-> dir]
        ELSE IF fromTracker
        THEN [err |-> "none", ret |-> Some(Len(X[1])), source |-> "clearml",
              calls |-> fetched.calls, dir |-> dir]
        ELSE [err |-> "ValueError", ret |-> None, source |-> "none",
              calls |-> fetched.calls, dir |-> dir]

\* predict on a registered id: where the estimator is loaded from, the result and
\* the directory the call leaves (load_model writes the fetched copy into models/)
predict(model_id, features, fetch) ==
    LET model_info == models_get(model_id)[1]
        X == convert_features_to_list(features)
        fetched == load_model(model_info.clearml_model_id, model_id, fetch)
        dir == IF fetched.written
               THEN DictPut(modelsDir, Tail(fetched.path[1]), [mtime |-> clock])
               ELSE modelsDir
        fromTracker == fetched.path # None /\ Tail(fetched.path[1]) \in DOMAIN dir
        fromLocal == ~fromTracker /\ Tail(model_info.model_path) \in DOMAIN dir
    IN  IF X = None
        THEN [err |-> "ValueError", ret |-> None, source |-> "none", calls |-> <<>>,
              dir |-> modelsDir]
        ELSE IF fromTracker
        THEN [err |-> "none", ret |-> Some(Len(X[1])), source |-> "clearml",
              calls |-> fetched.calls, dir |-> dir]
        ELSE IF fromLocal
        THEN [err |-> "none", ret |-> Some(Len(X[1])), source |-> "local",
              calls |-> fetched.calls, dir |-> dir]
        ELSE [err |-> "ValueError", ret |-> None, source |-> "none",
              calls |-> fetched.calls, dir |-> dir]

----------------------------------------------------------------------------
\* Actions of the model registry

\* one call of _convert_features_to_list, on records, on lists, or on scalars (the
\* function reads no state: one call per behaviour covers every call)
ConvertFeatures ==
    /\ last.op = "start"
    /\ \/ \E rows \in RecordInputs :
             LET features == [kind |-> "dicts", rows |-> rows]
             IN  last' = [op |-> "convert_features", features |-> features,
                          ret |-> convert_features_to_list(features)]
       \/ \E rows \in MatrixInputs :
             LET features == [kind |-> "lists", rows |-> rows]
             IN  last' = [op |-> "convert_features", features |-> features,
                          ret |-> convert_features_to_list(features)]
       \/ \E rows \in {<<"1.0">>, <<"1.0", "3">>} :
             LET features == [kind |-> "scalars", rows |-> rows]
             IN  last' = [op |-> "convert_features", features |-> features,
                          ret |-> convert_features_to_list(features)]
    /\ UNCHANGED <<running, configVars, modelVars, datasetVars, clock, deleted, workers>>

TrainModel(w) ==
    /\ running
    /\ modelUuids < MaxModels
    /\ \E model_type \in w.model_types, dataset_id \in w.dataset_ids,
          hyperparameters \in w.hyperparameters, est \in w.estimator,
          trk \in TrackerOutcomes(w.tracker), mio \in MinioOutcomes(w.minio) :
          LET r == train_model(model_type, dataset_id, hyperparameters, est, trk, mio)
          IN  /\ models' = r.models
              /\ modelsMetadataFile' = r.file
              /\ modelsDir' = r.dir
              /\ last' = [op |-> "train_model", model_type |-> model_type,
                          dataset_id |-> dataset_id, hyperparameters |-> hyperparameters,
                          drawn |-> Some(uuid4(modelUuids + 1)),
                          metrics |-> est.metrics,
                          err |-> r.err, ret |-> r.ret, calls |-> r.calls]
    /\ modelUuids' = modelUuids + 1
    /\ clock' = clock + 1
    /\ UNCHANGED <<running, configVars, datasetVars, deleted, workers>>

RetrainModel(w) ==
    /\ running
    /\ \E model_id \in (DOMAIN models) \cup {uuid4(n) : n \in 1..MaxModels},
          dataset_id \in w.dataset_ids,
          hyperparameters \in w.overrides :
          IF models_get(model_id) = None
          THEN /\ last' = [op |-> "retrain_model", model_id |-> model_id,
                           dataset_id |-> dataset_id, hyperparameters |-> hyperparameters,
                           drawn |-> None,
                           err |-> "ValueError", ret |-> None, calls |-> <<>>]
               /\ UNCHANGED <<modelVars, clock>>
          ELSE /\ modelUuids < MaxModels
               /\ \E est \in w.estimator, trk \in TrackerOutcomes(w.tracker),
                        mio \in MinioOutcomes(w.minio) :
                     LET r == retrain_model(model_id, dataset_id, hyperparameters, est,
                                            trk, mio)
                     IN  /\ models' = r.models
                         /\ modelsMetadataFile' = r.file
                         /\ modelsDir' = r.dir
                         /\ last' = [op |-> "retrain_model", model_id |-> model_id,
                                     dataset_id |-> dataset_id,
                                     hyperparameters |-> hyperparameters,
                                     drawn |-> Some(uuid4(modelUuids + 1)),
                                     metrics |-> est.metrics,
                                     err |-> r.err, ret |-> r.ret, calls |-> r.calls]
               /\ modelUuids' = modelUuids + 1
               /\ clock' = clock + 1
    /\ UNCHANGED <<running, configVars, datasetVars, deleted, workers>>

Predict(w) ==
    /\ running
    /\ \E model_id \in (DOMAIN models) \cup {uuid4(n) : n \in 1..MaxModels},
          input \in w.features :
          IF models_get(model_id) = None
          THEN /\ last' = [op |-> "predict", model_id |-> model_id, features |-> input,
                           err |-> "ValueError", ret |-> None, source |-> "none",
                           calls |-> <<>>]
               /\ UNCHANGED modelsDir
          ELSE \E fetch \in w.fetch :
                  LET r == predict(model_id, FeatureInputs[input], fetch)
                  IN  /\ modelsDir' = r.dir
                      /\ last' = [op |-> "predict", model_id |-> model_id,
                                  features |-> input, err |-> r.err, ret |-> r.ret,
                                  source |-> r.source, calls |-> r.calls]
    /\ UNCHANGED <<running, configVars, models, modelsMetadataFile, modelUuids,
                   datasetVars, clock, deleted, workers>>

\* A lookup that registers a placeholder for an id it does not find.
get_model_inserting(model_id) ==
    [ret |-> models_get(model_id),
     models |-> IF model_id \in DOMAIN models THEN models
                ELSE DictPut(models, model_id, models_get_or_default(model_id)[1])]

\* get_model: the record or None, and the registry the call leaves
get_model(model_id) == [ret |-> models_get(model_id), models |-> models]

\* get_all_models: the records of the registry (their order is left out)
get_all_models == {models[id] : id \in DOMAIN models}

\* one call of get_model
GetModel ==
    /\ running
    /\ \E model_id \in (DOMAIN models) \cup {uuid4(n) : n \in 1..MaxModels} :
          LET r == get_model(model_id)
          IN  /\ models' = r.models
              /\ last' = [op |-> "get_model", model_id |-> model_id, ret |-> r.ret]
    /\ UNCHANGED <<running, configVars, modelsMetadataFile, modelsDir, modelUuids,
                   datasetVars, clock, deleted, workers>>

\* one call of get_all_models
ListModels ==
    /\ running
    /\ last' = [op |-> "get_all_models", ret |-> get_all_models]
    /\ UNCHANGED <<running, configVars, modelVars, datasetVars, clock, deleted, workers>>

\* one call of get_available_model_types
AvailableModelTypes ==
    /\ running
    /\ last' = [op |-> "get_available_model_types", ret |-> get_available_model_types]
    /\ UNCHANGED <<running, configVars, modelVars, datasetVars, clock, deleted, workers>>

DeleteModel ==
    /\ running
    /\ \E model_id \in (DOMAIN models) \cup {uuid4(n) : n \in 1..MaxModels} :
          IF model_id \notin DOMAIN models
          THEN /\ last' = [op |-> "delete_model", model_id |-> model_id, ret |-> FALSE]
               /\ UNCHANGED <<models, modelsDir, deleted>>
          ELSE LET r == delete_model(model_id)
               IN  /\ models' = r.models
                   /\ modelsDir' = r.dir
                   /\ last' = [op |-> "delete_model", model_id |-> model_id, ret |-> TRUE]
                   /\ deleted' = deleted \cup {model_id}
    /\ UNCHANGED <<running, configVars, modelsMetadataFile, modelUuids, datasetVars, clock,
                   workers>>

\* The process is killed inside train_model: before model.save has written the
\* artifact (point "before_save"), or after it and before _save_model_metadata has
\* written the metadata file (point "after_save").
TrainCrash ==
    /\ running
    /\ modelUuids < MaxModels
    /\ \E point \in {"before_save", "after_save"} :
          LET model_id == uuid4(modelUuids + 1)
          IN  /\ modelsDir' = IF point = "after_save"
                              THEN DictPut(modelsDir, model_id \o <<".pkl">>, [mtime |-> clock])
                              ELSE modelsDir
              /\ last' = [op |-> "kill", point |-> point, model_id |-> model_id]
    /\ running' = FALSE
    /\ models' = EmptyDict
    /\ datasets' = EmptyDict
    /\ modelUuids' = modelUuids + 1
    /\ clock' = clock + 1
    /\ UNCHANGED <<configVars, modelsMetadataFile, datasetsMetadataFile, datasetsDir,
                   datasetUuids, deleted, workers>>

----------------------------------------------------------------------------
\* DVCService

\* What the dvc subprocesses of one upload do: <<dvc add, dvc push>>, each one of
\*   ok            exit status 0
\*   ok_nohash     (add) exit status 0, the .dvc file holds no md5
\*   exit_nonzero  subprocess.CalledProcessError
\*   not_found     the dvc executable cannot be run: FileNotFoundError
\* A push is attempted only when add_dataset returned.
DvcOutcomes ==
    {<<"ok", "ok">>, <<"ok_nohash", "ok">>, <<"ok", "exit_nonzero">>, <<"ok", "not_found">>,
     <<"exit_nonzero", "exit_nonzero">>, <<"not_found", "not_found">>}

\* the md5 dvc records for a file content, cut to 16 characters
md5(content) == <<"md5">> \o content

\* add_dataset: the version it returns, whether it raises, the .dvc file it leaves
add_dataset(content, add) ==
    CASE add = "ok" ->
            [raised |-> FALSE, version |-> Some(md5(content)), sidecar |-> Some(Some(md5(content)))]
      [] add = "ok_nohash" ->
            [raised |-> FALSE, version |-> None, sidecar |-> Some(None)]
      [] add = "exit_nonzero" ->
            [raised |-> FALSE, version |-> None, sidecar |-> None]
      [] OTHER ->
            [raised |-> TRUE, version |-> None, sidecar |-> None]

\* push_dataset: the boolean it returns; it catches every exception
push_dataset(push) == push = "ok"

----------------------------------------------------------------------------
\* DatasetService

DatasetInfoToJson(info) ==
    [info EXCEPT !.created_at = IF @.tag = "datetime" THEN isoformat(@) ELSE @]

DatasetInfoFromJson(info) ==
    [info EXCEPT !.created_at = IF @.tag = "str" THEN fromisoformat(@) ELSE @]

load_metadata_from_file ==
    IF datasetsMetadataFile = None
    THEN EmptyDict
    ELSE [did \in DOMAIN datasetsMetadataFile[1] |->
             DatasetInfoFromJson(datasetsMetadataFile[1][did])]

\* _save_metadata_to_file, the loop over self.datasets.items(): the mapping `data`
build_dataset_metadata(registry) ==
    [did \in DOMAIN registry |-> DatasetInfoToJson(registry[did])]

\* A save that updates the existing file content with `data`, as the model
\* registry's save does.
save_metadata_merging(registry) ==
    Some(DictUpdate(IF datasetsMetadataFile = None THEN EmptyDict
                    ELSE datasetsMetadataFile[1],
                    build_dataset_metadata(registry)))

\* _save_metadata_to_file run on registry `registry` without interruption: the new
\* file content
save_metadata_to_file(registry) ==
    Some(build_dataset_metadata(registry))

FileNameInputs == {<<"train", ".csv">>}
ContentInputs == {<<>>, <<"x", ",", "y", "\n", "1", ",", "2", "\n">>}
FormatInputs == {"csv", "json"}

\* The size of the file as it was before the upload wrote it.
getsize_before_write(dir, name) ==
    IF name \in DOMAIN datasetsDir THEN Len(datasetsDir[name]) ELSE 0

\* os.path.getsize(filepath) in directory content `dir`: the number of bytes
getsize(dir, name) == Len(dir[name])

\* upload_dataset from the line after the uuid4 draw
upload_with_id(dataset_id, file_name, file_content, format, dvc) ==
    LET name == dataset_id \o <<".", format>>
        filepath == join(datasets_dir, name)
        written == DictPut(datasetsDir, name, file_content)
        file_size == getsize(written, name)
        added == add_dataset(file_content, dvc[1])
        dir == IF added.sidecar = None THEN written
               ELSE DictPut(written, name \o <<".dvc">>, added.sidecar[1])
        pushed == push_dataset(dvc[2])
        record == [dataset_id |-> dataset_id,
                   file_name |-> file_name,
                   filepath |-> filepath,
                   format |-> format,
                   size |-> file_size,
                   created_at |-> datetime(clock),
                   dvc_version |-> added.version]
        registry == DictPut(datasets, dataset_id, record)
    IN  IF added.raised
        THEN [err |-> "FileNotFoundError", ret |-> None,
              calls |-> << <<"dvc add", dvc[1]>> >>,
              datasets |-> datasets, file |-> datasetsMetadataFile, dir |-> written]
        ELSE [err |-> "none", ret |-> Some(dataset_id),
              calls |-> << <<"dvc add", dvc[1]>>, <<"dvc push", dvc[2]>> >>,
              datasets |-> registry, file |-> save_metadata_to_file(registry), dir |-> dir]

upload_dataset(file_name, file_content, format, dvc) ==
    upload_with_id(<<"d", ToString(datasetUuids + 1)>>, file_name, file_content, format, dvc)

\* get_dataset: the record, or None
get_dataset(dataset_id) ==
    IF dataset_id \in DOMAIN datasets THEN Some(datasets[dataset_id]) ELSE None

\* get_all_datasets: the records of the registry (their order is left out)
get_all_datasets == {datasets[id] : id \in DOMAIN datasets}

\* A delete that removes the data file and the record and leaves the .dvc file.
delete_dataset_keeping_sidecar(dataset_id) ==
    LET filepath == datasets[dataset_id].filepath
        dir1 == IF exists(filepath) THEN DictDel(datasetsDir, Tail(filepath)) ELSE datasetsDir
        registry == DictDel(datasets, dataset_id)
    IN  [datasets |-> registry, file |-> save_metadata_to_file(registry), dir |-> dir1]

\* delete_dataset on a registered id
delete_dataset(dataset_id) ==
    LET filepath == datasets[dataset_id].filepath
        dvc_file == filepath \o <<".dvc">>
        dir1 == IF exists(filepath) THEN DictDel(datasetsDir, Tail(filepath)) ELSE datasetsDir
        dir2 == IF Tail(dvc_file) \in DOMAIN dir1 THEN DictDel(dir1, Tail(dvc_file)) ELSE dir1
        registry == DictDel(datasets, dataset_id)
    IN  [datasets |-> registry, file |-> save_metadata_to_file(registry), dir |-> dir2]

\* the number of times `tok` occurs in `seq`
Count(seq, tok) == Cardinality({i \in DOMAIN seq : seq[i] = tok})

\* the first line of a text, without its line end
RECURSIVE FirstLine(_)
FirstLine(content) ==
    IF content = <<>> \/ content[1] = "\n" THEN <<>>
    ELSE <<content[1]>> \o FirstLine(Tail(content))

\* pd.read_csv(filepath): the number of columns of the frame, taken from the header
\* line; None stands for the reader's error on an empty file (a ValueError)
read_csv(content) ==
    IF content = <<>> THEN None ELSE Some(1 + Count(FirstLine(content), ","))

\* pd.read_json(filepath) on a list of records: the number of columns of the frame,
\* the keys of the record; None stands for the decoder's ValueError
read_json(content) ==
    IF content # <<>> /\ content[1] = "[" THEN Some(Count(content, ":")) ELSE None

\* What `dvc pull` can do for a file: restore it (only from a .dvc file that
\* records its hash), exit non-zero, or not be executable at all.
PullOutcomes(name) ==
    IF /\ name \o <<".dvc">> \in DOMAIN datasetsDir
       /\ datasetsDir[name \o <<".dvc">>] # None
    THEN {"ok", "exit_nonzero", "not_found"}
    ELSE {"exit_nonzero", "not_found"}

\* A pull that answers False whenever the tool did not succeed.
pull_dataset_catching_all(name, pull) ==
    [raised |-> FALSE,
     ok |-> pull = "ok",
     dir |-> IF pull = "ok"
             THEN DictPut(datasetsDir, name, Tail(datasetsDir[name \o <<".dvc">>][1]))
             ELSE datasetsDir]

\* pull_dataset: it returns True, returns False on CalledProcessError, and lets any
\* other exception of subprocess.run through
pull_dataset(name, pull) ==
    [raised |-> pull = "not_found",
     ok |-> pull = "ok",
     dir |-> IF pull = "ok"
             THEN DictPut(datasetsDir, name, Tail(datasetsDir[name \o <<".dvc">>][1]))
             ELSE datasetsDir]

\* A loader that answers every id with a frame of one feature column, without
\* looking at the registry.
load_dataset_unchecked(dataset_id, pull) ==
    [err |-> "none", msg |-> "none", ret |-> Some(1), calls |-> <<>>, dir |-> datasetsDir]

\* load_dataset: the error raised and its message, the number of feature columns
\* returned, the dvc calls made and the directory the call leaves
load_dataset(dataset_id, pull) ==
    LET dataset_info == get_dataset(dataset_id)
        filepath == dataset_info[1].filepath
        format == dataset_info[1].format
        missing == ~exists(filepath)
        pulled == pull_dataset(Tail(filepath), pull)
        calls == IF missing THEN << <<"dvc pull", pull>> >> ELSE <<>>
        dir == IF missing THEN pulled.dir ELSE datasetsDir
        df == IF format = "csv" THEN read_csv(dir[Tail(filepath)])
              ELSE read_json(dir[Tail(filepath)])
        failed(err, msg, c, d) ==
            [err |-> err, msg |-> msg, ret |-> None, calls |-> c, dir |-> d]
    IN  IF dataset_info = None
        THEN failed("ValueError", "not_found", <<>>, datasetsDir)
        ELSE IF missing /\ pulled.raised
        THEN failed("FileNotFoundError", "dvc", calls, dir)
        ELSE IF missing /\ ~pulled.ok
        THEN failed("ValueError", "not_retrievable", calls, dir)
        ELSE IF format \notin {"csv", "json"}
        THEN failed("ValueError", "unsupported_format", calls, dir)
        ELSE IF df = None
        THEN failed("ValueError", "unreadable", calls, dir)
        ELSE IF df[1] < 2
        THEN failed("ValueError", "too_few_columns", calls, dir)
        ELSE [err |-> "none", msg |-> "none", ret |-> Some(df[1] - 1), calls |-> calls,
              dir |-> dir]

\* the contents and formats offered to uploads that are loaded later: an empty
\* file, csv with two columns and with one, a json list of one record; a format no
\* reader exists for
LoadContentInputs ==
    {<<>>,
     <<"x", ",", "y", "\n", "1", ",", "2", "\n">>,
     <<"x", "\n", "1", "\n">>,
     <<"[", "{", "a", ":", "1", ",", "b", ":", "2", "}", "]">>}
LoadFormatInputs == {"csv", "json", "txt"}

\* one call of upload_dataset, while fewer than `n` ids have been drawn
UploadDatasetUpTo(w, n) ==
    /\ running
    /\ datasetUuids < n
    /\ \E file_name \in FileNameInputs, file_content \in w.contents,
          format \in w.formats, dvc \in w.dvc :
          LET r == upload_dataset(file_name, file_content, format, dvc)
          IN  /\ datasets' = r.datasets
              /\ datasetsMetadataFile' = r.file
              /\ datasetsDir' = r.dir
              /\ last' = [op |-> "upload_dataset", file_name |-> file_name,
                          file_content |-> file_content, format |-> format,
                          err |-> r.err, ret |-> r.ret, calls |-> r.calls]
    /\ datasetUuids' = datasetUuids + 1
    /\ clock' = clock + 1
    /\ UNCHANGED <<running, configVars, modelVars, deleted, workers>>

UploadDataset(w) == UploadDatasetUpTo(w, MaxDatasets)

\* one call of get_dataset
GetDataset ==
    /\ running
    /\ \E dataset_id \in (DOMAIN datasets) \cup DatasetIdInputs :
          last' = [op |-> "get_dataset", dataset_id |-> dataset_id,
                   ret |-> get_dataset(dataset_id)]
    /\ UNCHANGED <<running, configVars, modelVars, datasetVars, clock, deleted, workers>>

\* one call of get_all_datasets
ListDatasets ==
    /\ running
    /\ last' = [op |-> "get_all_datasets", ret |-> get_all_datasets]
    /\ UNCHANGED <<running, configVars, modelVars, datasetVars, clock, deleted, workers>>

DeleteDataset ==
    /\ running
    /\ \E dataset_id \in (DOMAIN datasets) \cup DatasetIdInputs :
          IF dataset_id \notin DOMAIN datasets
          THEN /\ last' = [op |-> "delete_dataset", dataset_id |-> dataset_id, ret |-> FALSE]
               /\ UNCHANGED <<datasets, datasetsMetadataFile, datasetsDir, deleted>>
          ELSE LET r == delete_dataset(dataset_id)
               IN  /\ datasets' = r.datasets
                   /\ datasetsMetadataFile' = r.file
                   /\ datasetsDir' = r.dir
                   /\ last' = [op |-> "delete_dataset", dataset_id |-> dataset_id, ret |-> TRUE]
                   /\ deleted' = deleted \cup {dataset_id}
    /\ UNCHANGED <<running, configVars, modelVars, datasetUuids, clock, workers>>

\* one call of load_dataset, on a registered id or not
LoadDataset ==
    /\ running
    /\ \E dataset_id \in (DOMAIN datasets) \cup DatasetIdInputs :
          \E pull \in IF dataset_id \in DOMAIN datasets
                      THEN PullOutcomes(Tail(datasets[dataset_id].filepath))
                      ELSE {"exit_nonzero"} :
             LET r == load_dataset(dataset_id, pull)
             IN  /\ datasetsDir' = r.dir
                 /\ last' = [op |-> "load_dataset", dataset_id |-> dataset_id,
                             err |-> r.err, msg |-> r.msg, ret |-> r.ret,
                             calls |-> r.calls]
    /\ UNCHANGED <<running, configVars, modelVars, datasets, datasetsMetadataFile,
                   datasetUuids, clock, deleted, workers>>

\* The local copy of a registered dataset's file disappears (the case load_dataset
\* answers with a dvc pull); the .dvc file stays.
DatasetFileLost ==
    /\ \E dataset_id \in DOMAIN datasets :
          /\ exists(datasets[dataset_id].filepath)
          /\ datasetsDir' = DictDel(datasetsDir, Tail(datasets[dataset_id].filepath))
          /\ last' = [op |-> "file_lost", dataset_id |-> dataset_id]
    /\ UNCHANGED <<running, configVars, modelVars, datasets, datasetsMetadataFile,
                   datasetUuids, clock, deleted, workers>>

----------------------------------------------------------------------------
\* Requests: the handlers of the REST routes and of the gRPC servicer load the
\* dataset first and call the model registry with its X and y

\* the train handler: load_dataset, then train_model
TrainRequest(w) ==
    /\ running
    /\ \E model_type \in w.model_types,
          dataset_id \in (DOMAIN datasets) \cup DatasetIdInputs,
          hyperparameters \in w.hyperparameters :
          \E pull \in IF dataset_id \in DOMAIN datasets
                      THEN PullOutcomes(Tail(datasets[dataset_id].filepath))
                      ELSE {"exit_nonzero"} :
             LET ld == load_dataset(dataset_id, pull)
             IN  /\ datasetsDir' = ld.dir
                 /\ IF ld.err # "none"
                    THEN /\ last' = [op |-> "train_request", stage |-> "load_dataset",
                                     dataset_id |-> dataset_id, drawn |-> None,
                                     err |-> ld.err, msg |-> ld.msg, ret |-> None,
                                     dvc |-> ld.calls, calls |-> <<>>]
                         /\ UNCHANGED <<modelVars, clock>>
                    ELSE /\ modelUuids < MaxModels
                         /\ \E est \in w.estimator, trk \in TrackerOutcomes(w.tracker),
                                  mio \in MinioOutcomes(w.minio) :
                               LET r == train_model(model_type, dataset_id,
                                                    hyperparameters, est, trk, mio)
                               IN  /\ models' = r.models
                                   /\ modelsMetadataFile' = r.file
                                   /\ modelsDir' = r.dir
                                   /\ last' = [op |-> "train_request",
                                               stage |-> "train_model",
                                               dataset_id |-> dataset_id,
                                               drawn |-> Some(uuid4(modelUuids + 1)),
                                               err |-> r.err, msg |-> "none",
                                               ret |-> r.ret, dvc |-> ld.calls,
                                               calls |-> r.calls]
                         /\ modelUuids' = modelUuids + 1
                         /\ clock' = clock + 1
    /\ UNCHANGED <<running, configVars, datasets, datasetsMetadataFile, datasetUuids,
                   deleted, workers>>

\* the retrain handler: load_dataset, then retrain_model
RetrainRequest(w) ==
    /\ running
    /\ \E model_id \in (DOMAIN models) \cup {uuid4(n) : n \in 1..MaxModels},
          dataset_id \in (DOMAIN datasets) \cup DatasetIdInputs,
          hyperparameters \in w.overrides :
          \E pull \in IF dataset_id \in DOMAIN datasets
                      THEN PullOutcomes(Tail(datasets[dataset_id].filepath))
                      ELSE {"exit_nonzero"} :
             LET ld == load_dataset(dataset_id, pull)
             IN  /\ datasetsDir' = ld.dir
                 /\ IF ld.err # "none"
                    THEN /\ last' = [op |-> "retrain_request", stage |-> "load_dataset",
                                     dataset_id |-> dataset_id, drawn |-> None,
                                     err |-> ld.err, msg |-> ld.msg, ret |-> None,
                                     dvc |-> ld.calls, calls |-> <<>>]
                         /\ UNCHANGED <<modelVars, clock>>
                    ELSE IF models_get(model_id) = None
                    THEN /\ last' = [op |-> "retrain_request", stage |-> "retrain_model",
                                     dataset_id |-> dataset_id, drawn |-> None,
                                     err |-> "ValueError", msg |-> "model_not_found",
                                     ret |-> None, dvc |-> ld.calls, calls |-> <<>>]
                         /\ UNCHANGED <<modelVars, clock>>
                    ELSE /\ modelUuids < MaxModels
                         /\ \E est \in w.estimator, trk \in TrackerOutcomes(w.tracker),
                                  mio \in MinioOutcomes(w.minio) :
                               LET r == retrain_model(model_id, dataset_id,
                                                      hyperparameters, est, trk, mio)
                               IN  /\ models' = r.models
                                   /\ modelsMetadataFile' = r.file
                                   /\ modelsDir' = r.dir
                                   /\ last' = [op |-> "retrain_request",
                                               stage |-> "retrain_model",
                                               dataset_id |-> dataset_id,
                                               drawn |-> Some(uuid4(modelUuids + 1)),
                                               err |-> r.err, msg |-> "none",
                                               ret |-> r.ret, dvc |-> ld.calls,
                                               calls |-> r.calls]
                         /\ modelUuids' = modelUuids + 1
                         /\ clock' = clock + 1
    /\ UNCHANGED <<running, configVars, datasets, datasetsMetadataFile, datasetUuids,
                   deleted, workers>>

----------------------------------------------------------------------------
\* Worker threads: calls that overlap in time. The gRPC server hands each request to
\* a thread of its pool; the threads share the two service singletons. A thread can
\* be preempted between any two statements, here: after it has stored its record in
\* the registry, inside and after the loop that builds the mapping to write, and
\* between reading and writing the metadata file.

\* Threads of the pool that run a call in one behaviour.
MaxThreads == 2
Threads == 1..MaxThreads

\* A thread's call: where it stands (pc), the call, the id it drew and the locals of
\* its metadata save: `seen` the registry keys when the loop began, `data` the
\* mapping the loop built, `all_data` the file content read, `saved` whether it wrote.
IdleWorker ==
    [pc |-> "idle", op |-> "none", id |-> None, seen |-> {}, data |-> EmptyDict,
     all_data |-> EmptyDict, saved |-> FALSE]

\* `lastWriter` keeps, per metadata file, the thread that wrote it last (0: none).
IdleWorkers ==
    [pool |-> [t \in Threads |-> IdleWorker],
     lastWriter |-> [models |-> 0, datasets |-> 0]]

\* the registry thread t's call works on
WorkerRegistry(t) ==
    IF workers.pool[t].op = "train_model" THEN models ELSE datasets

WorkerStepDone(t) == [op |-> "worker_step", thread |-> t, pc |-> workers'.pool[t].pc]

\* train_model up to and including self.models[model_id] = {...}
WorkerTrain ==
    /\ running
    /\ \E t \in Threads, hyperparameters \in HyperparameterInputs,
          trk \in TrackerOutcomes({"ok"}), mio \in MinioOutcomes({"ok"}) :
          LET model_id == uuid4(modelUuids + 1)
              r == train_with_id(model_id, "linear", <<"d", "1">>, hyperparameters,
                                 EstimatorReturns(FiniteMetrics), trk, mio)
          IN  /\ workers.pool[t].pc = "idle"
              /\ models' = r.models
              /\ modelsDir' = r.dir
              /\ workers' = [workers EXCEPT !.pool[t] =
                                [IdleWorker EXCEPT !.pc = "registered",
                                                   !.op = "train_model",
                                                   !.id = Some(model_id)]]
              /\ last' = WorkerStepDone(t)
    /\ modelUuids' = modelUuids + 1
    /\ clock' = clock + 1
    /\ UNCHANGED <<running, configVars, modelsMetadataFile, datasetVars, deleted>>

\* upload_dataset up to and including self.datasets[dataset_id] = {...}
WorkerUpload ==
    /\ running
    /\ \E t \in Threads, file_name \in FileNameInputs :
          LET dataset_id == <<"d", ToString(datasetUuids + 1)>>
              r == upload_with_id(dataset_id, file_name, <<"x", ",", "y", "\n">>, "csv",
                                  <<"ok", "ok">>)
          IN  /\ workers.pool[t].pc = "idle"
              /\ datasets' = r.datasets
              /\ datasetsDir' = r.dir
              /\ workers' = [workers EXCEPT !.pool[t] =
                                [IdleWorker EXCEPT !.pc = "registered",
                                                   !.op = "upload_dataset",
                                                   !.id = Some(dataset_id)]]
              /\ last' = WorkerStepDone(t)
    /\ datasetUuids' = datasetUuids + 1
    /\ clock' = clock + 1
    /\ UNCHANGED <<running, configVars, datasetsMetadataFile, modelVars, deleted>>

\* the save's loop over the registry's items() begins
WorkerLoopBegins ==
    /\ \E t \in Threads :
          /\ workers.pool[t].pc = "registered"
          /\ workers' = [workers EXCEPT !.pool[t].pc = "looping",
                                        !.pool[t].seen = DOMAIN WorkerRegistry(t)]
          /\ last' = WorkerStepDone(t)
    /\ UNCHANGED <<running, configVars, modelVars, datasetVars, clock, deleted>>

\* the loop ends: with `data` built, or, when another thread has added a key to the
\* dict meanwhile, with the RuntimeError that the save's except clause swallows, so
\* that the call returns without having written the file
WorkerLoopEnds ==
    /\ \E t \in Threads :
          /\ workers.pool[t].pc = "looping"
          /\ workers' =
                IF DOMAIN WorkerRegistry(t) # workers.pool[t].seen
                THEN [workers EXCEPT !.pool[t].pc = "done"]
                ELSE [workers EXCEPT
                        !.pool[t].pc = "built",
                        !.pool[t].data =
                            IF workers.pool[t].op = "train_model"
                            THEN build_model_metadata(models, workers.pool[t].id)
                            ELSE build_dataset_metadata(datasets)]
          /\ last' = WorkerStepDone(t)
    /\ UNCHANGED <<running, configVars, modelVars, datasetVars, clock, deleted>>

\* _save_model_metadata reads the existing file
WorkerReads ==
    /\ \E t \in Threads :
          /\ workers.pool[t].pc = "built"
          /\ workers.pool[t].op = "train_model"
          /\ workers' = [workers EXCEPT !.pool[t].pc = "read",
                                        !.pool[t].all_data = read_model_metadata]
          /\ last' = WorkerStepDone(t)
    /\ UNCHANGED <<running, configVars, modelVars, datasetVars, clock, deleted>>

\* the save rewrites the file and the call returns
WorkerWrites ==
    /\ \E t \in Threads :
          /\ \/ /\ workers.pool[t].pc = "read"
                /\ workers.pool[t].op = "train_model"
                /\ modelsMetadataFile' =
                      write_model_metadata(workers.pool[t].all_data, workers.pool[t].data)
                /\ workers' = [workers EXCEPT !.pool[t].pc = "done",
                                              !.pool[t].saved = TRUE,
                                              !.lastWriter.models = t]
                /\ UNCHANGED datasetsMetadataFile
             \/ /\ workers.pool[t].pc = "built"
                /\ workers.pool[t].op = "upload_dataset"
                /\ datasetsMetadataFile' = Some(workers.pool[t].data)
                /\ workers' = [workers EXCEPT !.pool[t].pc = "done",
                                              !.pool[t].saved = TRUE,
                                              !.lastWriter.datasets = t]
                /\ UNCHANGED modelsMetadataFile
          /\ last' = WorkerStepDone(t)
    /\ UNCHANGED <<running, configVars, models, modelsDir, modelUuids, datasets,
                   datasetsDir, datasetUuids, clock, deleted>>

----------------------------------------------------------------------------
\* Process lifecycle

\* the process ends between two calls: the in-memory registries are gone
Stop ==
    /\ running
    /\ running' = FALSE
    /\ models' = EmptyDict
    /\ datasets' = EmptyDict
    /\ last' = [op |-> "stop"]
    /\ UNCHANGED <<configVars, modelsMetadataFile, modelsDir, modelUuids,
                   datasetsMetadataFile, datasetsDir, datasetUuids, clock, deleted, workers>>

\* process start: ModelService.__init__ and DatasetService.__init__; `after` keeps
\* how the previous process ended
Start ==
    /\ ~running
    /\ running' = TRUE
    /\ models' = load_models_from_disk
    /\ datasets' = load_metadata_from_file
    /\ last' = [op |-> "start", after |-> last]
    /\ UNCHANGED <<configVars, modelsMetadataFile, modelsDir, modelUuids,
                   datasetsMetadataFile, datasetsDir, datasetUuids, clock, deleted, workers>>

Init ==
    /\ running = TRUE
    /\ clearmlInitialized \in BOOLEAN
    /\ minioClient \in BOOLEAN
    /\ models = EmptyDict
    /\ modelsMetadataFile = None
    /\ modelsDir = EmptyDict
    /\ datasets = EmptyDict
    /\ datasetsMetadataFile = None
    /\ datasetsDir = EmptyDict
    /\ modelUuids = 0
    /\ datasetUuids = 0
    /\ clock = 0
    /\ last = [op |-> "start", after |-> [op |-> "install"]]
    /\ deleted = {}
    /\ workers = IdleWorkers

\* The calls offered to the model registry: every model kind (one unsupported),
\* every tracker and object-store outcome, an estimator that raises or returns
\* finite metrics, and retraining with and without overrides.
ModelsWorkload ==
    [model_types |-> ModelTypeInputs,
     dataset_ids |-> {<<"d", "1">>},
     hyperparameters |-> HyperparameterInputs,
     overrides |-> RetrainHyperparameterInputs,
     estimator |-> {EstimatorRaises, EstimatorReturns(FiniteMetrics)},
     tracker |-> TrackerModes,
     minio |-> MinioModes]

NextModels ==
    \/ TrainModel(ModelsWorkload)
    \/ RetrainModel(ModelsWorkload)
    \/ DeleteModel
    \/ TrainCrash
    \/ Stop
    \/ Start

SpecModels == Init /\ [][NextModels]_vars

\* The calls offered when serving: training that registers with the tracker or
\* falls back, with an object store that accepts or refuses the artifact, and
\* predictions on list, dict and scalar features with every fetch outcome.
ServingWorkload ==
    [model_types |-> {"linear"},
     dataset_ids |-> {<<"d", "1">>},
     hyperparameters |-> HyperparameterInputs,
     overrides |-> {None},
     estimator |-> {EstimatorReturns(FiniteMetrics)},
     tracker |-> {"ok", "init_fail"},
     minio |-> {"ok", "put_fail"},
     features |-> {2, 3, 4},
     fetch |-> FetchOutcomes]

NextServing ==
    \/ TrainModel(ServingWorkload)
    \/ RetrainModel(ServingWorkload)
    \/ Predict(ServingWorkload)
    \/ DeleteModel
    \/ Stop
    \/ Start

SpecServing == Init /\ [][NextServing]_vars

DatasetsWorkload ==
    [contents |-> ContentInputs, formats |-> FormatInputs, dvc |-> DvcOutcomes]

NextDatasets ==
    \/ UploadDataset(DatasetsWorkload)
    \/ DeleteDataset
    \/ DatasetFileLost
    \/ Stop
    \/ Start

SpecDatasets == Init /\ [][NextDatasets]_vars

\* Loading datasets for training: every content and format, uploads whose dvc add
\* worked or did not, files lost and pulled back, deletes.
LoadWorkload ==
    [contents |-> LoadContentInputs,
     formats |-> LoadFormatInputs,
     dvc |-> {<<"ok", "ok">>, <<"exit_nonzero", "exit_nonzero">>}]

NextLoad ==
    \/ UploadDataset(LoadWorkload)
    \/ LoadDataset
    \/ DatasetFileLost
    \/ DeleteDataset

SpecLoad == Init /\ [][NextLoad]_vars

\* Requests on both registries: datasets uploaded and deleted, models trained and
\* retrained on them through the handlers, and predictions.
RequestsWorkload ==
    [model_types |-> {"linear"},
     hyperparameters |-> HyperparameterInputs,
     overrides |-> {None},
     estimator |-> {EstimatorReturns(FiniteMetrics)},
     tracker |-> {"ok"},
     minio |-> {"ok"},
     features |-> {2},
     fetch |-> {"file", "raise"},
     contents |-> {<<"x", ",", "y", "\n", "1", ",", "2", "\n">>},
     formats |-> {"csv"},
     dvc |-> {<<"ok", "ok">>}]

NextRequests ==
    \/ UploadDataset(RequestsWorkload)
    \/ DeleteDataset
    \/ TrainRequest(RequestsWorkload)
    \/ RetrainRequest(RequestsWorkload)
    \/ Predict(RequestsWorkload)

SpecRequests == Init /\ [][NextRequests]_vars

\* The identity of datasets: several uploads, every dataset operation, model
\* operations beside them, and restarts.
IdentityWorkload ==
    [model_types |-> {"linear"},
     hyperparameters |-> {None},
     estimator |-> {EstimatorReturns(FiniteMetrics)},
     tracker |-> {"ok"},
     minio |-> {"ok"},
     contents |-> {<<"x", ",", "y", "\n", "1", ",", "2", "\n">>},
     formats |-> {"csv"},
     dvc |-> {<<"ok", "ok">>}]

NextIdentity ==
    \/ UploadDatasetUpTo(IdentityWorkload, MaxUploads)
    \/ GetDataset
    \/ ListDatasets
    \/ LoadDataset
    \/ DeleteDataset
    \/ DatasetFileLost
    \/ TrainRequest(IdentityWorkload)
    \/ Stop
    \/ Start

SpecIdentity == Init /\ [][NextIdentity]_vars

\* Reads beside writes: a model trained and a dataset uploaded, and every read
\* operation, predictions that return and predictions that fail.
ReadsWorkload ==
    [model_types |-> {"linear"},
     dataset_ids |-> {<<"d", "1">>},
     hyperparameters |-> HyperparameterInputs,
     estimator |-> {EstimatorReturns(FiniteMetrics)},
     tracker |-> {"ok"},
     minio |-> {"ok"},
     features |-> {2, 4},
     fetch |-> {"file", "raise"},
     contents |-> {<<"x", ",", "y", "\n", "1", ",", "2", "\n">>},
     formats |-> {"csv"},
     dvc |-> {<<"ok", "ok">>}]

NextReads ==
    \/ TrainModel(ReadsWorkload)
    \/ UploadDataset(ReadsWorkload)
    \/ GetModel
    \/ ListModels
    \/ AvailableModelTypes
    \/ Predict(ReadsWorkload)
    \/ GetDataset
    \/ ListDatasets

SpecReads == Init /\ [][NextReads]_vars

\* Training beside a registry that already holds records: models of every kind
\* trained with a tracker and an object store that work or fail, a dataset uploaded,
\* and restarts that replay and adopt records.
TrainWorkload ==
    [model_types |-> ModelTypeInputs,
     dataset_ids |-> DatasetIdInputs,
     hyperparameters |-> HyperparameterInputs,
     estimator |-> {EstimatorReturns(FiniteMetrics)},
     tracker |-> {"ok", "init_fail"},
     minio |-> {"ok", "put_fail"},
     contents |-> {<<"x", ",", "y", "\n", "1", ",", "2", "\n">>},
     formats |-> {"csv"},
     dvc |-> {<<"ok", "ok">>}]

NextTrain ==
    \/ TrainModel(TrainWorkload)
    \/ UploadDataset(TrainWorkload)
    \/ Stop
    \/ Start

SpecTrain == Init /\ [][NextTrain]_vars

\* Serving alone: records with a tracker id and without one (tracker not configured,
\* or a fetched file adopted at a restart), with and without their local artifact (a
\* restart brings back the record of a deleted model), every outcome of the fetch.
PredictWorkload ==
    [model_types |-> {"linear"},
     dataset_ids |-> {<<"d", "1">>},
     hyperparameters |-> HyperparameterInputs,
     estimator |-> {EstimatorReturns(FiniteMetrics)},
     tracker |-> {"ok"},
     minio |-> {"ok"},
     features |-> {2},
     fetch |-> FetchOutcomes]

NextPredict ==
    \/ TrainModel(PredictWorkload)
    \/ Predict(PredictWorkload)
    \/ DeleteModel
    \/ Stop
    \/ Start

\* (predict never uses the object store: it is left unconfigured here)
InitPredict == Init /\ ~minioClient

SpecPredict == InitPredict /\ [][NextPredict]_vars

\* Calls by id: ids never drawn, ids of deleted models and registered ids, given to
\* retrain and to predict.
LookupWorkload ==
    [model_types |-> {"linear"},
     dataset_ids |-> {<<"d", "1">>},
     hyperparameters |-> HyperparameterInputs,
     overrides |-> {None},
     estimator |-> {EstimatorReturns(FiniteMetrics)},
     tracker |-> {"ok"},
     minio |-> {"ok"},
     features |-> {2, 4},
     fetch |-> {"file", "raise"}]

NextLookup ==
    \/ TrainModel(LookupWorkload)
    \/ RetrainModel(LookupWorkload)
    \/ Predict(LookupWorkload)
    \/ DeleteModel

SpecLookup == Init /\ [][NextLookup]_vars

\* Retraining alone: two kinds, two datasets, and overrides absent, empty or given.
RetrainWorkload ==
    [model_types |-> {"linear", "random_forest"},
     dataset_ids |-> {<<"d", "1">>, <<"d", "2">>},
     hyperparameters |-> HyperparameterInputs,
     overrides |-> RetrainHyperparameterInputs,
     estimator |-> {EstimatorReturns(FiniteMetrics)},
     tracker |-> {"ok"},
     minio |-> {"ok"}]

NextRetrain ==
    \/ TrainModel(RetrainWorkload)
    \/ RetrainModel(RetrainWorkload)

SpecRetrain == Init /\ [][NextRetrain]_vars

\* Training alone, on every metric mapping of MetricInputs.
MetricsWorkload ==
    [model_types |-> {"linear"},
     dataset_ids |-> {<<"d", "1">>},
     hyperparameters |-> HyperparameterInputs,
     overrides |-> {None},
     estimator |-> {EstimatorReturns(metrics) : metrics \in MetricInputs},
     tracker |-> {"ok"},
     minio |-> {"ok"}]

NextMetrics ==
    \/ TrainModel(MetricsWorkload)
    \/ RetrainModel(MetricsWorkload)
    \/ Stop
    \/ Start

SpecMetrics == Init /\ [][NextMetrics]_vars

\* Train, then predict: the tracker and the object store configured or not, working
\* or failing, every outcome of the tracker fetch, matrices given as lists and as
\* records, restarts in between, and no delete.
TrainPredictWorkload ==
    [model_types |-> {"linear"},
     dataset_ids |-> {<<"d", "1">>},
     hyperparameters |-> HyperparameterInputs,
     estimator |-> {EstimatorReturns(FiniteMetrics)},
     tracker |-> {"ok", "init_fail"},
     minio |-> {"ok", "put_fail"},
     features |-> {2, 3},
     fetch |-> FetchOutcomes]

NextTrainPredict ==
    \/ TrainModel(TrainPredictWorkload)
    \/ Predict(TrainPredictWorkload)
    \/ Stop
    \/ Start

SpecTrainPredict == Init /\ [][NextTrainPredict]_vars

\* The feature conversion on its own.
NextFeatures == ConvertFeatures

SpecFeatures == Init /\ [][NextFeatures]_vars

\* Calls that overlap on the worker threads.
NextConcurrent ==
    \/ WorkerTrain
    \/ WorkerUpload
    \/ WorkerLoopBegins
    \/ WorkerLoopEnds
    \/ WorkerReads
    \/ WorkerWrites

SpecConcurrent == Init /\ [][NextConcurrent]_vars

\* the process stops while no call is in flight
StopQuiesced ==
    /\ \A t \in Threads : workers.pool[t].pc \in {"idle", "done"}
    /\ Stop

\* a model is deleted while no call is in flight
DeleteQuiesced ==
    /\ \A t \in Threads : workers.pool[t].pc \in {"idle", "done"}
    /\ DeleteModel

\* Racing train calls, and deletes and restarts between them.
NextRestartRace ==
    \/ WorkerTrain
    \/ WorkerLoopBegins
    \/ WorkerLoopEnds
    \/ WorkerReads
    \/ WorkerWrites
    \/ DeleteQuiesced
    \/ StopQuiesced
    \/ Start

SpecRestartRace == Init /\ [][NextRestartRace]_vars

\* Both registries side by side, on a small workload.
JointWorkload ==
    [model_types |-> {"linear", "svm"},
     dataset_ids |-> DatasetIdInputs,
     hyperparameters |-> HyperparameterInputs,
     overrides |-> {None},
     estimator |-> {EstimatorReturns(FiniteMetrics)},
     tracker |-> {"ok"},
     minio |-> {"ok"},
     features |-> {2},
     fetch |-> {"nofile", "raise"},
     contents |-> {<<"x", ",", "y", "\n", "1", ",", "2", "\n">>},
     formats |-> {"csv"},
     dvc |-> {<<"ok", "ok">>, <<"exit_nonzero", "exit_nonzero">>}]

Next ==
    \/ TrainModel(JointWorkload)
    \/ RetrainModel(JointWorkload)
    \/ Predict(JointWorkload)
    \/ DeleteModel
    \/ TrainCrash
    \/ UploadDataset(JointWorkload)
    \/ DeleteDataset
    \/ DatasetFileLost
    \/ Stop
    \/ Start

Spec == Init /\ [][Next]_vars

----------------------------------------------------------------------------
\* Properties

\* the external call `step` was made during the last call
Called(step) == \E i \in DOMAIN last.calls : last.calls[i] = step

\* the id the last train_model / retrain_model call drew is registered, in memory
\* and in the metadata file, with its artifact on disk
DrawnIdStored ==
    /\ last.drawn # None
    /\ last.ret = last.drawn
    /\ last.drawn[1] \in DOMAIN models
    /\ modelsMetadataFile # None
    /\ last.drawn[1] \in DOMAIN modelsMetadataFile[1]
    /\ (last.drawn[1] \o <<".pkl">>) \in DOMAIN modelsDir

\* C1: model delete is durable. Once delete_model(id) has returned True, the
\* artifact file <id>.pkl is gone, the registry holds no record for id, and a
\* process start from the files as they now are (metadata replay plus directory
\* scan) yields no record for id.
C1_DeleteModelDurable ==
    (last.op = "delete_model" /\ last.ret = TRUE) =>
        /\ last.model_id \notin DOMAIN models
        /\ (last.model_id \o <<".pkl">>) \notin DOMAIN modelsDir
        /\ last.model_id \notin DOMAIN load_models_from_disk

\* C2: retraining never mutates the original record. Every retrain_model(id, ...)
\* step that succeeds leaves the record of id exactly as it was, returns an id
\* different from id that was not registered before, and registers a record of
\* its own under that id.
C2_RetrainKeepsOriginal ==
    [][(last'.op = "retrain_model" /\ last'.err = "none") =>
          LET id == last'.model_id
              new == last'.ret[1]
          IN  /\ id \in DOMAIN models
              /\ id \in DOMAIN models'
              /\ models'[id] = models[id]
              /\ new # id
              /\ new \notin DOMAIN models
              /\ new \in DOMAIN models'
              /\ models'[new].model_id = new
              /\ \A other \in DOMAIN models : other \in DOMAIN models'
                                              /\ models'[other] = models[other]]_vars

\* a retrain of a registered model has succeeded and both records are registered
C2_Witness ==
    /\ last.op = "retrain_model"
    /\ last.err = "none"
    /\ last.model_id \in DOMAIN models
    /\ last.ret[1] \in DOMAIN models
    /\ last.ret[1] # last.model_id

\* C3: training with a model kind outside {linear, random_forest} fails with the
\* invalid-input error (ValueError) and leaves the registry, the metadata file and
\* the artifact directory as they were before the call.
C3_UnsupportedKindRejected ==
    [][(last'.op = "train_model" /\ last'.model_type \notin get_available_model_types) =>
          /\ last'.err = "ValueError"
          /\ last'.ret = None
          /\ UNCHANGED <<models, modelsMetadataFile, modelsDir>>]_vars

\* C4: the upload of the serialized model to the object store is best-effort. When
\* the client is configured and the bucket check or put_object fails during a train
\* call, the call still registers the record, persists its metadata and returns the
\* new id.
C4_ArtifactStoreBestEffort ==
    (/\ last.op \in {"train_model", "retrain_model"}
     /\ minioClient
     /\ Called("bucket_exists:raise") \/ Called("put_object:raise")) =>
        /\ last.err = "none"
        /\ DrawnIdStored

\* C5: train tolerates tracker failure. When the tracker is configured and a tracker
\* step of a train call fails (opening the run, logging a scalar, registering the
\* artifact) while the model kind is supported, the estimator trains and the object
\* store accepts the artifact, the call returns the new id and registers a record
\* whose tracker artifact id is absent.
C5_TrainToleratesTrackerFailure ==
    (/\ last.op \in {"train_model", "retrain_model"}
     /\ clearmlInitialized
     /\ Called("Task.init:raise") \/ Called("report_scalar:raise")
            \/ Called("update_weights:raise")
     /\ last.op = "train_model" => last.model_type \in get_available_model_types
     /\ ~Called("model.train:raise")
     /\ ~Called("put_object:raise")) =>
        /\ last.err = "none"
        /\ DrawnIdStored
        /\ models[last.drawn[1]].clearml_model_id = None

\* C6: the system functions with the tracker absent. With the tracker not
\* initialized, every train and retrain call on valid input (supported kind, known
\* model id, an estimator that trains) succeeds without any tracker call and
\* registers a record whose tracker artifact id is absent; and every predict on a
\* registered record without tracker artifact id, on well-formed features, loads
\* the estimator from the local artifact path without any tracker call.
C6_WorksWithoutTracker ==
    ~clearmlInitialized =>
        /\ (/\ last.op \in {"train_model", "retrain_model"}
            /\ last.drawn # None
            /\ last.op = "train_model" => last.model_type \in get_available_model_types
            /\ ~Called("model.train:raise")) =>
               /\ last.err = "none"
               /\ DrawnIdStored
               /\ models[last.drawn[1]].clearml_model_id = None
               /\ ~Called("Task.init:ok")
               /\ ~Called("Task.init:raise")
        /\ (/\ last.op = "predict"
            /\ last.model_id \in DOMAIN models
            /\ models[last.model_id].clearml_model_id = None
            /\ convert_features_to_list(FeatureInputs[last.features]) # None) =>
               /\ last.err = "none"
               /\ last.source = "local"
               /\ last.calls = <<>>

\* C7: dataset upload survives version-control failure. Whenever the snapshot
\* (dvc add) or the push (dvc push) of an upload exits non-zero or cannot be
\* executed, the upload still returns the new id, registers the record (with
\* dvc_version absent when the snapshot failed) and persists the metadata.
C7_UploadSurvivesDvcFailure ==
    (/\ last.op = "upload_dataset"
     /\ \E i \in DOMAIN last.calls : last.calls[i][2] \in {"exit_nonzero", "not_found"}) =>
        /\ last.err = "none"
        /\ last.ret # None
        /\ last.ret[1] \in DOMAIN datasets
        /\ datasetsMetadataFile # None
        /\ last.ret[1] \in DOMAIN datasetsMetadataFile[1]
        /\ last.calls[1][2] \in {"exit_nonzero", "not_found"} =>
              datasets[last.ret[1]].dvc_version = None

\* C8: delete is found-once on both registries. A delete of a registered id that
\* no delete has found before returns True and removes the record and its backing
\* file; a delete of an id that an earlier delete found returns False and changes
\* nothing; a delete of an id that is not registered returns False.
C8_DeleteFoundOnce ==
    [][/\ last'.op = "delete_model" =>
             LET id == last'.model_id
             IN  /\ (id \in DOMAIN models /\ id \notin deleted) =>
                        /\ last'.ret = TRUE
                        /\ id \notin DOMAIN models'
                        /\ (id \o <<".pkl">>) \notin DOMAIN modelsDir'
                 /\ id \in deleted =>
                        /\ last'.ret = FALSE
                        /\ UNCHANGED <<models, modelsMetadataFile, modelsDir>>
                 /\ id \notin DOMAIN models => last'.ret = FALSE
       /\ last'.op = "delete_dataset" =>
             LET id == last'.dataset_id
             IN  /\ (id \in DOMAIN datasets /\ id \notin deleted) =>
                        /\ last'.ret = TRUE
                        /\ id \notin DOMAIN datasets'
                        /\ \A f \in DOMAIN datasetsDir' : f[1] # id[1] \/ f[2] # id[2]
                 /\ id \in deleted =>
                        /\ last'.ret = FALSE
                        /\ UNCHANGED <<datasets, datasetsMetadataFile, datasetsDir>>
                 /\ id \notin DOMAIN datasets => last'.ret = FALSE]_vars

\* C9: orphan reconciliation. When the process was killed inside train_model after
\* <id>.pkl was written and before the metadata was persisted, the registry the
\* next start builds holds a record for id with placeholder metadata: kind linear,
\* dataset "unknown", no hyperparameters, status trained, no metrics, no tracker
\* id, and the path of the file.
C9_OrphanAdopted ==
    (/\ last.op = "start"
     /\ last.after.op = "kill"
     /\ last.after.point = "after_save") =>
        LET id == last.after.model_id
        IN  /\ id \in DOMAIN models
            /\ models[id].model_id = id
            /\ models[id].model_type = "linear"
            /\ models[id].dataset_id = <<"unknown">>
            /\ models[id].hyperparameters = {}
            /\ models[id].status = "trained"
            /\ models[id].metrics = None
            /\ models[id].clearml_model_id = None
            /\ models[id].model_path = join(models_dir, id \o <<".pkl">>)
            /\ models[id].created_at.tag = "datetime"

\* the process has started after such a kill and the orphan is registered, although
\* the metadata file does not know it
C9_Witness ==
    /\ running
    /\ last.op = "start"
    /\ last.after.op = "kill"
    /\ last.after.point = "after_save"
    /\ last.after.model_id \in DOMAIN models
    /\ modelsMetadataFile = None \/ last.after.model_id \notin DOMAIN modelsMetadataFile[1]

\* C10: a model has one reachable status. Every record of the registry and of the
\* metadata file has status "trained"; and a train call that fails, or is killed,
\* before the artifact is serialized leaves no record for the id it drew: not in
\* memory, not in the metadata file, and not in the registry a start would build.
C10_OnlyTrainedRecords ==
    /\ \A id \in DOMAIN models : models[id].status = "trained"
    /\ modelsMetadataFile # None =>
          \A id \in DOMAIN modelsMetadataFile[1] :
              modelsMetadataFile[1][id].status = "trained"
    /\ \A id \in DOMAIN load_models_from_disk : load_models_from_disk[id].status = "trained"
    /\ (/\ last.op \in {"train_model", "retrain_model"}
        /\ last.drawn # None
        /\ last.err \in {"TrackerError", "ValueError", "EstimatorError"}) =>
           /\ last.drawn[1] \notin DOMAIN models
           /\ modelsMetadataFile = None \/ last.drawn[1] \notin DOMAIN modelsMetadataFile[1]
           /\ last.drawn[1] \notin DOMAIN load_models_from_disk
    /\ (last.op = "kill" /\ last.point = "before_save") =>
           /\ last.model_id \notin DOMAIN models
           /\ modelsMetadataFile = None \/ last.model_id \notin DOMAIN modelsMetadataFile[1]
           /\ last.model_id \notin DOMAIN load_models_from_disk

\* a train call has failed before serializing while another model is registered
C10_Witness ==
    /\ last.op \in {"train_model", "retrain_model"}
    /\ last.drawn # None
    /\ last.err \in {"TrackerError", "ValueError", "EstimatorError"}
    /\ models # EmptyDict
    /\ modelsMetadataFile # None

\* the metadata file thread t's call writes, as an optional mapping
WorkerFile(t) ==
    IF workers.pool[t].op = "train_model" THEN modelsMetadataFile ELSE datasetsMetadataFile

\* every thread has run a call and the call has returned
AllWorkersDone == \A t \in Threads : workers.pool[t].pc = "done"

\* thread t's call has returned, its save wrote the file, and the file lacks its record
LostUpdate(t) ==
    /\ workers.pool[t].saved
    /\ WorkerFile(t) # None
    /\ workers.pool[t].id[1] \notin DOMAIN WorkerFile(t)[1]

\* C11: concurrent writers can lose updates, and the last writer wins. When the calls
\* of the worker threads have returned, every new record is in the in-memory registry,
\* and each metadata file holds exactly what the thread that wrote it last computed
\* from its own, possibly stale, view: for models the content that thread had read
\* updated with its own record, for datasets the registry that thread had iterated.
\* A record is therefore missing from the file only when its thread is not the last
\* writer of that file.
C11_LastWriterWins ==
    AllWorkersDone =>
        \A t \in Threads :
            /\ workers.pool[t].id[1] \in DOMAIN WorkerRegistry(t)
            /\ (/\ workers.pool[t].op = "train_model"
                /\ workers.lastWriter.models = t) =>
                   /\ modelsMetadataFile # None
                   /\ modelsMetadataFile[1] =
                          DictUpdate(workers.pool[t].all_data, workers.pool[t].data)
                   /\ workers.pool[t].id[1] \in DOMAIN modelsMetadataFile[1]
            /\ (/\ workers.pool[t].op = "upload_dataset"
                /\ workers.lastWriter.datasets = t) =>
                   /\ datasetsMetadataFile = Some(workers.pool[t].data)
                   /\ workers.pool[t].id[1] \in DOMAIN datasetsMetadataFile[1]
            /\ LostUpdate(t) =>
                   \E u \in Threads \ {t} :
                       /\ workers.pool[u].op = workers.pool[t].op
                       /\ workers.pool[u].saved
                       /\ u \in {workers.lastWriter.models, workers.lastWriter.datasets}

\* two train calls have returned, both saves wrote the metadata file, and the file
\* lacks one of the two new records
C11_Witness ==
    /\ AllWorkersDone
    /\ \A t \in Threads : workers.pool[t].op = "train_model" /\ workers.pool[t].saved
    /\ \E t \in Threads : LostUpdate(t)

\* the same for two dataset uploads
C11_UploadsLoseUpdate ==
    /\ AllWorkersDone
    /\ \A t \in Threads : workers.pool[t].op = "upload_dataset" /\ workers.pool[t].saved
    /\ \E t \in Threads : LostUpdate(t)

\* C12: named-field input is normalized deterministically. For a non-empty list of
\* records the matrix has one row per record and one column per key of the FIRST
\* record, column j being the key with j-1 smaller keys in str order; row i holds
\* record i's value for that key as a float, or 0.0 when record i lacks the key; keys
\* of later records only are ignored. Converting the resulting matrix gives the same
\* matrix, so predict sees the same input either way. Lists of lists pass through
\* unchanged and an empty input gives an empty matrix.
C12_FeaturesNormalized ==
    last.op = "convert_features" =>
        LET rows == last.features.rows
        IN  /\ Len(rows) = 0 => last.ret = Some(<<>>)
            /\ (last.features.kind = "lists" /\ Len(rows) > 0) => last.ret = Some(rows)
            /\ (last.features.kind = "dicts" /\ Len(rows) > 0) =>
                  /\ last.ret # None
                  /\ Len(last.ret[1]) = Len(rows)
                  /\ \A i \in 1..Len(rows) :
                        /\ Len(last.ret[1][i]) = Cardinality(Keys(rows[1]))
                        /\ \A k \in Keys(rows[1]) :
                              LET j == 1 + Cardinality({k2 \in Keys(rows[1]) : StrLess(k2, k)})
                              IN  last.ret[1][i][j] =
                                     IF \E v \in FeatureValues : <<k, v>> \in rows[i]
                                     THEN float((CHOOSE kv \in rows[i] : kv[1] = k)[2])
                                     ELSE "0.0"
                  /\ convert_features_to_list([kind |-> "lists", rows |-> last.ret[1]])
                        = last.ret

\* two records converted: the first has "x2" and "x10", the second lacks "x10" and
\* brings "x1", which the first does not have
C12_Witness ==
    /\ last.op = "convert_features"
    /\ last.features.kind = "dicts"
    /\ Len(last.features.rows) = 2
    /\ Keys(last.features.rows[1]) = {"x2", "x10"}
    /\ Keys(last.features.rows[2]) = {"x1", "x2"}
    /\ last.ret = Some(<< <<"1.0", "3.0">>, <<"0.0", "1.0">> >>)

\* the file a tracker fetch for the model of the last predict call is written to
FetchedFile == last.model_id \o <<"_clearml", ".pkl">>

\* the last call was a predict on a registered id whose features were convertible
PredictReachedLoad ==
    /\ last.op = "predict"
    /\ last.model_id \in DOMAIN models
    /\ convert_features_to_list(FeatureInputs[last.features]) # None

\* C13: predict resolves the estimator in a fixed order. With a tracker id on the
\* record (and the tracker configured) the fetch is attempted, and the estimator is
\* loaded from the fetched file exactly when the fetch returned a path and that file
\* exists; it is loaded from the local path exactly when that did not happen and the
\* local file exists; predict fails with ValueError exactly when neither file exists.
\* Without a tracker id the tracker is not contacted.
C13_PredictResolutionOrder ==
    PredictReachedLoad =>
        LET model_info == models[last.model_id]
            fetchTried == clearmlInitialized /\ model_info.clearml_model_id # None
            fetchedOk == /\ fetchTried
                         /\ Called("get_weights:ok")
                         /\ FetchedFile \in DOMAIN modelsDir
            localOk == Tail(model_info.model_path) \in DOMAIN modelsDir
        IN  /\ fetchTried <=> last.calls # <<>>
            /\ last.source = "clearml" <=> fetchedOk
            /\ last.source = "local" <=> (~fetchedOk /\ localOk)
            /\ last.err = "ValueError" <=> (~fetchedOk /\ ~localOk)
            /\ last.err = "none" <=> last.source # "none"
            /\ last.err \in {"none", "ValueError"}

\* a predict has loaded the fetched tracker artifact although the local artifact of
\* the model exists as well
C13_Witness ==
    /\ PredictReachedLoad
    /\ last.source = "clearml"
    /\ Tail(models[last.model_id].model_path) \in DOMAIN modelsDir

\* a predict has fallen back to the local artifact after a tracker fetch that failed
C13_FallbackTaken ==
    /\ PredictReachedLoad
    /\ last.source = "local"
    /\ Called("get_weights:raise")

\* a predict has found neither file
C13_NotLoadable ==
    /\ PredictReachedLoad
    /\ last.err = "ValueError"

\* C14: unknown model ids fail immediately. A predict or a retrain on an id the
\* registry lacks raises ValueError before any feature conversion, tracker call,
\* training or file access: no collaborator is called, no id is drawn, and the
\* registry, the metadata file and the artifact directory are unchanged.
C14_UnknownIdFailsImmediately ==
    [][(/\ last'.op \in {"predict", "retrain_model"}
        /\ last'.model_id \notin DOMAIN models) =>
          /\ last'.err = "ValueError"
          /\ last'.ret = None
          /\ last'.calls = <<>>
          /\ last'.op = "retrain_model" => last'.drawn = None
          /\ last'.op = "predict" => last'.source = "none"
          /\ models' = models
          /\ modelsMetadataFile' = modelsMetadataFile
          /\ modelsDir' = modelsDir
          /\ modelUuids' = modelUuids]_vars

\* a retrain on an id the registry lacks has failed while another model is registered
C14_Witness ==
    /\ last.op = "retrain_model"
    /\ last.model_id \notin DOMAIN models
    /\ last.err = "ValueError"
    /\ models # EmptyDict

\* a predict on an id the registry lacks has failed, with features that no
\* conversion accepts
C14_PredictUnknown ==
    /\ last.op = "predict"
    /\ last.model_id \notin DOMAIN models
    /\ last.err = "ValueError"
    /\ convert_features_to_list(FeatureInputs[last.features]) = None

\* the caller of the last retrain call supplied overrides (not None, not {})
OverridesSupplied == last.hyperparameters # None /\ last.hyperparameters[1] # {}

\* C15: retrain defaults. The record a successful retrain produces has the model
\* kind of the original record and the dataset id given to retrain; its
\* hyperparameters are the overrides when the caller supplies some, and those of the
\* original record when the caller supplies None or an empty mapping.
C15_RetrainDefaults ==
    (last.op = "retrain_model" /\ last.err = "none") =>
        /\ last.ret # None
        /\ last.ret[1] \in DOMAIN models
        /\ last.model_id \in DOMAIN models
        /\ LET new == models[last.ret[1]]
               old == models[last.model_id]
           IN  /\ new.model_type = old.model_type
               /\ new.dataset_id = last.dataset_id
               /\ new.hyperparameters =
                     IF OverridesSupplied THEN last.hyperparameters[1]
                     ELSE old.hyperparameters

\* a random forest has been retrained on another dataset with overrides
C15_Witness ==
    /\ last.op = "retrain_model"
    /\ last.err = "none"
    /\ OverridesSupplied
    /\ models[last.model_id].model_type = "random_forest"
    /\ models[last.model_id].dataset_id # last.dataset_id
    /\ models[last.ret[1]].hyperparameters # models[last.model_id].hyperparameters

\* a model has been retrained with an empty mapping of overrides
C15_EmptyOverrides ==
    /\ last.op = "retrain_model"
    /\ last.err = "none"
    /\ last.hyperparameters = Some({})
    /\ models[last.ret[1]].hyperparameters = models[last.model_id].hyperparameters

\* the values of an optional metric mapping
MetricValues(metrics) == IF metrics = None THEN {} ELSE {kv[2] : kv \in metrics[1]}

\* C16: non-finite metrics are never persisted. No record of the registry and no
\* record of the metadata file holds a NaN, +inf or -inf metric, nor an empty
\* mapping; and the record a successful train or retrain call stores, in memory and
\* in the file, holds exactly the estimator's metrics that are neither non-finite
\* nor None, or no mapping when none is left.
C16_NoNonFiniteMetrics ==
    /\ \A id \in DOMAIN models :
          /\ MetricValues(models[id].metrics) \cap NonFinite = {}
          /\ models[id].metrics # Some({})
    /\ modelsMetadataFile # None =>
          \A id \in DOMAIN modelsMetadataFile[1] :
              /\ MetricValues(modelsMetadataFile[1][id].metrics) \cap NonFinite = {}
              /\ modelsMetadataFile[1][id].metrics # Some({})
    /\ (last.op \in {"train_model", "retrain_model"} /\ last.err = "none") =>
          LET kept == {kv \in last.metrics : kv[2] \notin NonFinite \cup {"None"}}
              stored == IF kept = {} THEN None ELSE Some(kept)
          IN  /\ last.ret[1] \in DOMAIN models
              /\ models[last.ret[1]].metrics = stored
              /\ modelsMetadataFile # None
              /\ last.ret[1] \in DOMAIN modelsMetadataFile[1]
              /\ modelsMetadataFile[1][last.ret[1]].metrics = stored

\* a train call whose estimator returned a finite metric next to -inf has stored the
\* finite one alone
C16_Witness ==
    /\ last.op = "train_model"
    /\ last.err = "none"
    /\ <<"r2_score", "-inf">> \in last.metrics
    /\ models[last.ret[1]].metrics = Some({<<"mse", "0.1">>})

\* a train call whose estimator returned only NaN and +inf has stored no mapping
C16_NothingRemains ==
    /\ last.op = "train_model"
    /\ last.err = "none"
    /\ last.metrics = {<<"r2_score", "nan">>, <<"mse", "inf">>}
    /\ models[last.ret[1]].metrics = None

\* C17: the dataset registry round-trips through its metadata file. While the
\* process runs, between calls, the file maps exactly the ids of the in-memory
\* registry, and loading it gives the in-memory registry back, field for field
\* (the timestamp through isoformat and fromisoformat); so a restart changes nothing.
C17_DatasetRoundTrip ==
    running =>
        /\ load_metadata_from_file = datasets
        /\ datasets # EmptyDict => datasetsMetadataFile # None
        /\ datasetsMetadataFile # None =>
              /\ DOMAIN datasetsMetadataFile[1] = DOMAIN datasets
              /\ \A id \in DOMAIN datasets :
                    /\ datasetsMetadataFile[1][id].created_at.tag = "str"
                    /\ datasets[id].created_at.tag = "datetime"

\* the process has been restarted with a dataset registered
C17_Witness ==
    /\ running
    /\ last.op = "start"
    /\ last.after.op = "stop"
    /\ datasets # EmptyDict
    /\ load_metadata_from_file = datasets

\* the process has been restarted after the only dataset was deleted
C17_RestartAfterDelete ==
    /\ running
    /\ last.op = "start"
    /\ deleted # {}
    /\ datasets = EmptyDict
    /\ datasetsMetadataFile = Some(EmptyDict)

\* the ids drawn by the train and retrain calls so far
DrawnModelIds == {uuid4(n) : n \in 1..modelUuids}

\* C18: the model registry round-trips through its metadata file for creation.
\* After train and retrain calls that succeeded, one at a time, every id drawn is
\* registered, the metadata file holds every registered id with its full record
\* (kind, dataset id, hyperparameters, metrics, tracker id, status, path, and the
\* timestamp as text), and what a start would load is the in-memory registry: no
\* record falls back to placeholder metadata.
C18_ModelRoundTrip ==
    running =>
        /\ DOMAIN models = DrawnModelIds
        /\ models # EmptyDict => modelsMetadataFile # None
        /\ modelsMetadataFile # None =>
              /\ DOMAIN modelsMetadataFile[1] = DOMAIN models
              /\ \A id \in DOMAIN models :
                    ModelInfoFromJson(modelsMetadataFile[1][id]) = models[id]
        /\ load_models_from_disk = models
        /\ \A id \in DOMAIN models : models[id].dataset_id # <<"unknown">>

\* the process has been restarted with two models registered, the second one a
\* retrain of the first
C18_Witness ==
    /\ running
    /\ last.op = "start"
    /\ last.after.op = "stop"
    /\ Cardinality(DOMAIN models) = 2
    /\ load_models_from_disk = models

\* C19: upload then get. When an upload has returned an id, get_dataset on that id
\* returns a record whose size is the number of bytes of the uploaded content, whose
\* file name and format are the ones supplied, and whose dataset_id is the id
\* returned.
C19_UploadThenGet ==
    (last.op = "upload_dataset" /\ last.err = "none") =>
        /\ last.ret # None
        /\ get_dataset(last.ret[1]) # None
        /\ LET info == get_dataset(last.ret[1])[1]
           IN  /\ info.size = Len(last.file_content)
               /\ info.file_name = last.file_name
               /\ info.format = last.format
               /\ info.dataset_id = last.ret[1]

\* an upload of a non-empty json file has returned and its record can be fetched
C19_Witness ==
    /\ last.op = "upload_dataset"
    /\ last.err = "none"
    /\ last.format = "json"
    /\ Len(last.file_content) > 0
    /\ get_dataset(last.ret[1]) # None
    /\ get_dataset(last.ret[1])[1].size = Len(last.file_content)

\* C20: train then predict succeeds. A predict on an id that a train or retrain call
\* drew and registered, issued before any delete of that id, with a non-empty
\* matrix (given as lists or as records), finds the record, loads the estimator from
\* the tracker or from the local path, and returns one prediction per input row,
\* whether or not the tracker and the object store are configured and whatever the
\* tracker fetch does.
C20_TrainThenPredict ==
    (/\ PredictReachedLoad
     /\ last.model_id \in DrawnModelIds
     /\ last.model_id \notin deleted
     /\ Len(FeatureInputs[last.features].rows) > 0) =>
        /\ last.err = "none"
        /\ last.source \in {"clearml", "local"}
        /\ last.ret = Some(Len(FeatureInputs[last.features].rows))

\* with no tracker configured, a predict on a trained model, given two records, has
\* returned two predictions from the local artifact
C20_Witness ==
    /\ PredictReachedLoad
    /\ ~clearmlInitialized
    /\ last.model_id \in DrawnModelIds
    /\ last.model_id \notin deleted
    /\ FeatureInputs[last.features].kind = "dicts"
    /\ last.err = "none"
    /\ last.source = "local"
    /\ last.ret = Some(2)

\* with the tracker configured, a predict on a trained model has returned after a
\* tracker fetch that failed
C20_AfterFailedFetch ==
    /\ PredictReachedLoad
    /\ clearmlInitialized
    /\ last.model_id \in DrawnModelIds
    /\ Called("get_weights:raise")
    /\ last.err = "none"

\* C22: load_dataset checks in a fixed order and maps every failure to ValueError.
\* An unknown id fails with not-found and no dvc call; a known id whose file is
\* missing makes exactly one pull, and a pull that exits non-zero or cannot be
\* executed fails with not-retrievable; a file at hand makes no pull; only then
\* the format and the two-column minimum are checked. No path changes the registry
\* or its metadata file.
C22_LoadChecksInOrder ==
    [][last'.op = "load_dataset" =>
          LET id == last'.dataset_id
              known == id \in DOMAIN datasets
              missing == known /\ ~exists(datasets[id].filepath)
          IN  /\ last'.err \in {"none", "ValueError"}
              /\ ~known => last'.msg = "not_found" /\ last'.calls = <<>>
              /\ missing => Len(last'.calls) = 1
              /\ (known /\ ~missing) => last'.calls = <<>>
              /\ (missing /\ last'.calls[1][2] \in {"exit_nonzero", "not_found"}) =>
                    last'.err = "ValueError" /\ last'.msg = "not_retrievable"
              /\ last'.msg \in {"unsupported_format", "unreadable", "too_few_columns",
                                "none"} =>
                    known /\ Tail(datasets[id].filepath) \in DOMAIN datasetsDir'
              /\ last'.err = "none" <=> last'.msg = "none"
              /\ datasets' = datasets
              /\ datasetsMetadataFile' = datasetsMetadataFile]_vars

\* C21: deleting a dataset does not invalidate the models trained on it. A dataset
\* delete changes no model record, no model metadata and no artifact; a predict on
\* a model whose dataset has been deleted still returns its predictions; a train
\* or retrain request that names a deleted dataset fails in load_dataset with the
\* not-found ValueError, draws no id and changes nothing of the model registry.
C21_DatasetDeleteKeepsModels ==
    [][/\ last'.op = "delete_dataset" =>
              /\ models' = models
              /\ modelsMetadataFile' = modelsMetadataFile
              /\ modelsDir' = modelsDir
       /\ (/\ last'.op = "predict"
           /\ last'.model_id \in DOMAIN models
           /\ models[last'.model_id].dataset_id \in deleted) =>
              /\ last'.err = "none"
              /\ last'.ret # None
       /\ (/\ last'.op \in {"train_request", "retrain_request"}
           /\ last'.dataset_id \in deleted) =>
              /\ last'.stage = "load_dataset"
              /\ last'.err = "ValueError"
              /\ last'.msg = "not_found"
              /\ last'.drawn = None
              /\ models' = models
              /\ modelsMetadataFile' = modelsMetadataFile
              /\ modelsDir' = modelsDir
              /\ modelUuids' = modelUuids]_vars

\* a train request naming a deleted dataset has failed while a model trained on
\* that dataset is registered
C21_Witness ==
    /\ last.op = "train_request"
    /\ last.dataset_id \in deleted
    /\ last.err = "ValueError"
    /\ \E id \in DOMAIN models : models[id].dataset_id = last.dataset_id

\* a predict on a model whose dataset has been deleted has returned
C21_PredictAfterDelete ==
    /\ last.op = "predict"
    /\ last.model_id \in DOMAIN models
    /\ models[last.model_id].dataset_id \in deleted
    /\ last.err = "none"

\* the ids that the metadata file of the datasets holds
StoredDatasetIds ==
    IF datasetsMetadataFile = None THEN {} ELSE DOMAIN datasetsMetadataFile[1]

\* C23: the identity of datasets. Two different records never share a storage
\* path, and the path of a record is the file of its own id. A record leaves the
\* registry (the in-memory one of a running process, and the metadata file a
\* start reads it from) only in a delete_dataset call on its id, and after that
\* call neither the data file nor its .dvc file exists. No other call (upload,
\* get, list, load, train request, stop, start) removes a record
\* or a file of a registered dataset.
C23_DatasetIdentity ==
    [][/\ \A a \in DOMAIN datasets', b \in DOMAIN datasets' :
              a # b => datasets'[a].filepath # datasets'[b].filepath
       /\ \A id \in DOMAIN datasets' :
              datasets'[id].filepath = <<datasets_dir>> \o id \o <<".", datasets'[id].format>>
       /\ running' => DOMAIN datasets' = StoredDatasetIds'
       /\ \A id \in StoredDatasetIds \ StoredDatasetIds' :
              /\ last'.op = "delete_dataset"
              /\ last'.dataset_id = id
              /\ last'.ret = TRUE
       /\ \A id \in DOMAIN datasets :
              (last'.op = "delete_dataset" /\ last'.dataset_id = id) =>
                 /\ id \notin DOMAIN datasets'
                 /\ Tail(datasets[id].filepath) \notin DOMAIN datasetsDir'
                 /\ Tail(datasets[id].filepath) \o <<".dvc">> \notin DOMAIN datasetsDir'
       /\ (last'.op \notin {"delete_dataset", "file_lost"}) =>
              DOMAIN datasetsDir \subseteq DOMAIN datasetsDir']_vars

\* one of two registered datasets has been deleted, with its data file and its
\* .dvc file; the other one is still registered with its files
C23_Witness ==
    /\ last.op = "delete_dataset"
    /\ last.ret = TRUE
    /\ last.dataset_id \o <<".", "csv">> \notin DOMAIN datasetsDir
    /\ last.dataset_id \o <<".", "csv", ".dvc">> \notin DOMAIN datasetsDir
    /\ \E id \in DOMAIN datasets :
          /\ id # last.dataset_id
          /\ Tail(datasets[id].filepath) \in DOMAIN datasetsDir
          /\ Tail(datasets[id].filepath) \o <<".dvc">> \in DOMAIN datasetsDir

\* two datasets are registered after a restart
C23_TwoAfterRestart ==
    /\ last.op = "start"
    /\ Cardinality(DOMAIN datasets) = 2

\* the external steps of a call that are attempted once: each with its outcomes
OnceSteps ==
    {{"Task.init:ok", "Task.init:raise"},
     {"model.train:ok", "model.train:raise"},
     {"model.save"},
     {"update_weights:ok", "update_weights:raise"},
     {"mark_completed:ok", "mark_completed:raise"},
     {"bucket_exists:ok", "bucket_exists:raise"},
     {"put_object:ok", "put_object:raise"}}

\* how many of the calls of the last operation were attempts of `step`
Attempts(step) == Cardinality({i \in DOMAIN last.calls : last.calls[i] \in step})

\* C24: nothing is retried. In one train_model call every external step (the
\* tracker's Task.init, the estimator's fit, the artifact save, the registration
\* and completion with the tracker, the bucket check and the put to the object
\* store) is attempted at most once, also when Task.init has failed.
C24_NoStepRetried ==
    last.op = "train_model" => \A step \in OnceSteps : Attempts(step) <= 1

\* a train_model call whose Task.init failed has ended
C24_InitFailed ==
    /\ last.op = "train_model"
    /\ Called("Task.init:raise")

\* the ids that train_model calls of the pool's threads have returned
ReturnedByWorkers ==
    {workers.pool[t].id[1] :
        t \in {u \in Threads : workers.pool[u].op = "train_model"
                               /\ workers.pool[u].pc = "done"}}

\* the ids returned and not deleted whose artifact <id>.pkl is in the directory
KeptArtifacts ==
    {id \in ReturnedByWorkers \ deleted : id \o <<".pkl">> \in DOMAIN modelsDir}

\* C25: no trained id is lost across a restart, also when train calls race on the
\* metadata file. For every id a train call has returned that has not been deleted
\* and whose artifact <id>.pkl is still in the directory, the registry a start
\* builds from the disk holds a record, and the registry of a process started
\* since holds one.
C25_NoIdLostAcrossRestart ==
    /\ KeptArtifacts \subseteq DOMAIN load_models_from_disk
    /\ (running /\ last.op = "start") => KeptArtifacts \subseteq DOMAIN models

\* the process has been restarted after two racing train calls of which one lost
\* its record in the metadata file, and both ids are registered
C25_Witness ==
    /\ running
    /\ last.op = "start"
    /\ AllWorkersDone
    /\ Cardinality(KeptArtifacts) = MaxThreads
    /\ \E t \in Threads : LostUpdate(t)
    /\ KeptArtifacts \subseteq DOMAIN models

\* the last call opened a tracker run: a Task.init of it succeeded
RunOpened == Called("Task.init:ok")

\* the last call marked its run completed (mark_completed, or the status set
\* directly when mark_completed raised)
RunClosed == Called("mark_completed:ok") \/ Called("mark_completed:raise")

\* C26: every tracker run a train call opens is closed by the end of the call.
\* When a train_model call has ended, by returning an id or by raising, and it
\* had opened a run, it has marked that run completed.
C26_OpenedRunsClosed ==
    (last.op = "train_model" /\ RunOpened) => RunClosed

\* a train_model call opened a run and raised
C26_RaisedWithRunOpen ==
    /\ last.op = "train_model"
    /\ RunOpened
    /\ last.err # "none"
    /\ ~RunClosed

\* C27: no phantom models at startup. After a start, every id of the rebuilt
\* registry is an id that a train or retrain call drew before; the copy
\* <id>_clearml.pkl that predict fetched from the tracker is not a model.
C27_NoPhantomModels ==
    (running /\ last.op = "start") => DOMAIN models \subseteq DrawnModelIds

\* the process has been restarted with a fetched copy in the artifact directory
C27_FetchedCopyAtStart ==
    /\ running
    /\ last.op = "start"
    /\ \E id \in DrawnModelIds : id \o <<"_clearml", ".pkl">> \in DOMAIN modelsDir

\* the read operations
ReadOps ==
    {"get_model", "get_all_models", "get_available_model_types", "predict",
     "get_dataset", "get_all_datasets"}

\* C28: the read operations are read-only on the registries. A get or a list of
\* models or datasets, the list of available kinds, and a predict that returns or
\* fails, leave both in-memory registries and both metadata files as they were.
C28_ReadsAreReadOnly ==
    [][last'.op \in ReadOps =>
          /\ models' = models
          /\ datasets' = datasets
          /\ modelsMetadataFile' = modelsMetadataFile
          /\ datasetsMetadataFile' = datasetsMetadataFile]_vars

\* a get_model on an id that is not registered has returned None while a model
\* and a dataset are registered
C28_Witness ==
    /\ last.op = "get_model"
    /\ last.ret = None
    /\ models # EmptyDict
    /\ datasets # EmptyDict

\* a predict on a registered model has failed
C28_PredictFailed ==
    /\ last.op = "predict"
    /\ last.model_id \in DOMAIN models
    /\ last.err # "none"
    /\ datasets # EmptyDict

\* a predict has fetched a copy of the artifact from the tracker
C28_PredictFetched ==
    /\ last.op = "predict"
    /\ last.err = "none"
    /\ last.source = "clearml"

\* C29: a successful train adds exactly one record. The id a train_model call
\* returns was not registered before the call; after it the registry is the old
\* one plus one record under that id, whose model_id is the id, whose path is
\* <models_dir>/<id>.pkl and whose kind, dataset id and hyperparameters are the
\* arguments; every record registered before is unchanged, and so is the dataset
\* registry.
C29_TrainAddsOneRecord ==
    [][(last'.op = "train_model" /\ last'.err = "none") =>
          LET id == last'.ret[1]
          IN  /\ id \notin DOMAIN models
              /\ DOMAIN models' = DOMAIN models \cup {id}
              /\ models'[id].model_id = id
              /\ models'[id].model_path = <<models_dir>> \o id \o <<".pkl">>
              /\ models'[id].model_type = last'.model_type
              /\ models'[id].dataset_id = last'.dataset_id
              /\ models'[id].hyperparameters = last'.hyperparameters
              /\ \A other \in DOMAIN models : models'[other] = models[other]
              /\ datasets' = datasets
              /\ datasetsMetadataFile' = datasetsMetadataFile]_vars

\* a train has succeeded beside a record registered before it and a dataset
C29_Witness ==
    /\ last.op = "train_model"
    /\ last.err = "none"
    /\ last.ret[1] \in DOMAIN models
    /\ Cardinality(DOMAIN models) = 2
    /\ last.hyperparameters # {}
    /\ datasets # EmptyDict

====
